---- MODULE Spec2Model ----
(***************************************************************************)
(* flask-kit: the Selector query-string grammar, the qualified-value       *)
(* parser, the permission decorators (BasicAccessControl) and the Router's *)
(* request pipeline, modelled as state machines.                           *)
(*                                                                         *)
(* A Python str is a sequence of one-character strings, so that split,     *)
(* strip and int() are computed character by character as the code does.   *)
(***************************************************************************)
EXTENDS Integers, Sequences, FiniteSets, TLC

VARIABLES
    \* qualified_value(raw_value, valid, qualifier_first, default)
    raw_value, valid, qualifier_first, default, qv_result, qv_pc,
    \* Selector: which Selector class serves the call, request.args, the call's
    \* `only` and `mapping`, the method called and what it returned
    sel_impl, args, only, mapping, sel_op, sel_result, sel_raised,
    \* BasicAccessControl: what the get_permissions callback returns now, whether
    \* a `denied` callback was given, the decorator around the handler f with
    \* its `permissions` and `arg_name`, the last call's keyword arguments, how often
    \* the handler f and the `denied` callback ran, the keyword arguments f got
    \* last, and what the last call returned
    user_permissions, custom_denied, bac_op, permissions, arg_name, kwargs,
    f_calls, f_kwargs, denied_calls, bac_result,
    \* Router: its as_json, decorator and data_key, the `validate` schema of its
    \* one route, the body and keyword arguments of the last request, the
    \* validator's errors and document, how often the view, the handler and the
    \* decorator ran, the keyword arguments the handler got last, and what the
    \* last invocation of the view returned or raised
    as_json, decorator, data_key, validate, request_json, route_kwargs,
    validator_errors, validator_document, view_calls, handler_calls,
    decorator_calls, handler_kwargs, response, raised,
    \* the keyword arguments the decorator got last, and what the view returned
    \* last before _response_decorator took it
    decorator_kwargs, raw_response,
    \* Router: its document_routes, the url_prefix of its blueprint, its
    \* `routes` registry, the add_url_rule calls the blueprint got, and the last
    \* call made on the Router or dispatched by the blueprint
    document_routes, url_prefix, routes, url_rules, router_call,
    \* the requests being served by the view of one route at the same time:
    \* where each one is in decorated_route and what it holds
    threads,
    \* make_response: its argument, what it returned or raised, and what it
    \* returned or raised when it was given its own result
    fmt_resp, formatted, reformatted

qvVars == <<raw_value, valid, qualifier_first, default, qv_result, qv_pc>>
selVars == <<sel_impl, args, only, mapping, sel_op, sel_result, sel_raised>>

bacVars == <<user_permissions, custom_denied, bac_op, permissions, arg_name, kwargs,
             f_calls, f_kwargs, denied_calls, bac_result>>

routerVars == <<as_json, decorator, data_key, validate, request_json, route_kwargs,
                validator_errors, validator_document, view_calls, handler_calls,
                decorator_calls, handler_kwargs, response, raised,
                decorator_kwargs, raw_response,
                document_routes, url_prefix, routes, url_rules, router_call, threads>>

fmtVars == <<fmt_resp, formatted, reformatted>>

vars == <<qvVars, selVars, bacVars, routerVars, fmtVars>>

(***************************************************************************)
(* Bounds                                                                  *)
(***************************************************************************)
\* longest raw string handed to qualified_value, in tokens
MaxTok == 4
\* longest value of a filter parameter, in tokens
MaxFilterTok == 3
\* longest value of the sort parameter, in tokens
MaxSortTok == 3
\* longest value of a limit or offset parameter, in characters
MaxNumLen == 3
\* most parameters of a query string with several parameters
MaxArgs == 3
\* most permission sets handed to allow / deny
MaxPermSets == 2
\* most calls of decorated handlers in one run
MaxCalls == 2
\* invocations of the route's view in one behaviour
MaxRequests == 2
\* most routes registered on one Router
MaxRoutes == 2

(***************************************************************************)
(* str helpers                                                             *)
(***************************************************************************)
S_eq == <<"e", "q">>
S_ne == <<"n", "e">>
S_lt == <<"l", "t">>
S_gt == <<"g", "t">>
S_ge == <<"g", "e">>
S_le == <<"l", "e">>
S_not == <<"n", "o", "t">>
S_in == <<"i", "n">>
S_nin == <<"n", "i", "n">>
S_asc == <<"a", "s", "c">>
S_desc == <<"d", "e", "s", "c">>

\* str.strip() with no argument strips whitespace
IsSpace(c) == c = " "

RECURSIVE lstrip(_)
lstrip(s) ==
    IF s = <<>> THEN <<>>
    ELSE IF IsSpace(Head(s)) THEN lstrip(Tail(s))
    ELSE s

RECURSIVE rstrip(_)
rstrip(s) ==
    IF s = <<>> THEN <<>>
    ELSE IF IsSpace(s[Len(s)]) THEN rstrip(SubSeq(s, 1, Len(s) - 1))
    ELSE s

strip(s) == rstrip(lstrip(s))

\* `sep in s`
Contains(s, sep) == \E i \in 1..Len(s) : s[i] = sep

\* index of the first occurrence of sep in s, 0 when there is none (str.find + 1)
RECURSIVE find(_, _, _)
find(s, sep, i) ==
    IF i > Len(s) THEN 0
    ELSE IF s[i] = sep THEN i
    ELSE find(s, sep, i + 1)

\* s.split(sep, 1) for a string that contains sep: the two parts
split1(s, sep) ==
    LET i == find(s, sep, 1)
    IN  <<SubSeq(s, 1, i - 1), SubSeq(s, i + 1, Len(s))>>

\* s.split(sep): every segment, empty ones included; ''.split(sep) is ['']
RECURSIVE split(_, _)
split(s, sep) ==
    LET i == find(s, sep, 1)
    IN  IF i = 0 THEN <<s>>
        ELSE <<SubSeq(s, 1, i - 1)>> \o split(SubSeq(s, i + 1, Len(s)), sep)

\* `x in lst` for a Python list
InList(x, lst) == \E i \in 1..Len(lst) : lst[i] = x

(***************************************************************************)
(* qualified_value                                                         *)
(***************************************************************************)
\* a slip: on an invalid qualifier only the payload part is returned
qualified_value_payload_only(raw, valid_q, q_first, dflt) ==
    IF ~Contains(raw, ":") THEN <<dflt, strip(raw)>>
    ELSE
        LET parts == split1(raw, ":")
            qualifier == IF q_first THEN strip(parts[1]) ELSE strip(parts[2])
            value == IF q_first THEN strip(parts[2]) ELSE strip(parts[1])
        IN  IF ~InList(qualifier, valid_q) THEN <<dflt, value>>
            ELSE <<qualifier, value>>

\* a slip: the split is made at the LAST ':' (rsplit)
qualified_value_rsplit(raw, valid_q, q_first, dflt) ==
    IF ~Contains(raw, ":") THEN <<dflt, strip(raw)>>
    ELSE
        LET i == CHOOSE k \in 1..Len(raw) :
                    raw[k] = ":" /\ \A j \in (k + 1)..Len(raw) : raw[j] # ":"
            part1 == SubSeq(raw, 1, i - 1)
            part2 == SubSeq(raw, i + 1, Len(raw))
            qualifier == IF q_first THEN strip(part1) ELSE strip(part2)
            value == IF q_first THEN strip(part2) ELSE strip(part1)
        IN  IF ~InList(qualifier, valid_q) THEN <<dflt, strip(raw)>>
            ELSE <<qualifier, value>>

qualified_value(raw, valid_q, q_first, dflt) ==
    IF ~Contains(raw, ":") THEN <<dflt, strip(raw)>>
    ELSE
        LET parts == split1(raw, ":")
            qualifier == IF q_first THEN strip(parts[1]) ELSE strip(parts[2])
            value == IF q_first THEN strip(parts[2]) ELSE strip(parts[1])
        IN  IF ~InList(qualifier, valid_q) THEN <<dflt, strip(raw)>>
            ELSE <<qualifier, value>>

\* Selector.filter_ops, Selector.sort_dir
filter_ops == <<S_eq, S_in, S_nin, S_lt, S_le, S_gt, S_ge, S_ne, S_not>>
sort_dir == <<S_asc, S_desc>>

(***************************************************************************)
(* request.args: a werkzeug MultiDict, here the sequence of its (key,      *)
(* value) pairs in query-string order                                      *)
(***************************************************************************)
\* Optional values: None is <<>>, a value x is <<x>>
None == <<>>
Some(x) == <<x>>

\* MultiDict.keys(): the distinct keys, in order of first occurrence
RECURSIVE md_keys(_, _)
md_keys(a, seen) ==
    IF a = <<>> THEN <<>>
    ELSE IF Head(a)[1] \in seen THEN md_keys(Tail(a), seen)
    ELSE <<Head(a)[1]>> \o md_keys(Tail(a), seen \cup {Head(a)[1]})

keys(a) == md_keys(a, {})

\* MultiDict.getlist(key): every value of the key, in order of occurrence
RECURSIVE getlist(_, _)
getlist(a, key) ==
    IF a = <<>> THEN <<>>
    ELSE IF Head(a)[1] = key THEN <<Head(a)[2]>> \o getlist(Tail(a), key)
    ELSE getlist(Tail(a), key)

\* MultiDict.get(key, dflt): the first value of the key, dflt without the key
get(a, key, dflt) ==
    LET l == getlist(a, key) IN IF l = <<>> THEN dflt ELSE Some(l[1])

\* (mapping or dict()).get(key, key); a mapping of None is the empty mapping
mapping_get(m, key) == IF key \in DOMAIN m THEN m[key] ELSE key

(***************************************************************************)
(* int(value) and is_non_neg_int                                           *)
(***************************************************************************)
Digits == {"0", "1", "2"}
DigitValue(c) == CASE c = "0" -> 0 [] c = "1" -> 1 [] c = "2" -> 2

\* the digits of an integer literal body, underscores dropped; <<>> stands for
\* ValueError: underscores are legal only singly and between two digits
RECURSIVE literal_digits(_, _)
literal_digits(s, prev_digit) ==
    IF s = <<>> THEN (IF prev_digit THEN Some(<<>>) ELSE None)
    ELSE IF Head(s) \in Digits
        THEN LET rest == literal_digits(Tail(s), TRUE)
             IN  IF rest = None THEN None ELSE Some(<<Head(s)>> \o rest[1])
    ELSE IF Head(s) = "_" /\ prev_digit THEN literal_digits(Tail(s), FALSE)
    ELSE None

RECURSIVE digits_value(_, _)
digits_value(ds, acc) ==
    IF ds = <<>> THEN acc
    ELSE digits_value(Tail(ds), 10 * acc + DigitValue(Head(ds)))

\* int(s) for a str: the integer, or ValueError
int_of_str(s) ==
    LET t == strip(s)
        signed == t # <<>> /\ Head(t) \in {"+", "-"}
        body == IF signed THEN Tail(t) ELSE t
        ds == IF body = <<>> \/ Head(body) \notin Digits
              THEN None ELSE literal_digits(body, FALSE)
    IN  IF ds = None THEN [exc |-> "ValueError", n |-> 0]
        ELSE IF signed /\ Head(t) = "-"
            THEN [exc |-> "none", n |-> 0 - digits_value(ds[1], 0)]
        ELSE [exc |-> "none", n |-> digits_value(ds[1], 0)]

\* int(value) of an optional str; int(None) raises TypeError
int_of(value) ==
    IF value = None THEN [exc |-> "TypeError", n |-> 0] ELSE int_of_str(value[1])

\* a slip: `> 0`
is_non_neg_int_positive(value) ==
    LET r == int_of(value)
    IN  IF r.exc = "none" THEN [exc |-> "none", ret |-> r.n > 0]
        ELSE IF r.exc \in {"ValueError", "TypeError"} THEN [exc |-> "none", ret |-> FALSE]
        ELSE [exc |-> r.exc, ret |-> FALSE]

\* is_non_neg_int: `try: return int(value) >= 0` and
\* `except (ValueError, TypeError): return False`
is_non_neg_int(value) ==
    LET r == int_of(value)
    IN  IF r.exc = "none" THEN [exc |-> "none", ret |-> r.n >= 0]
        ELSE IF r.exc \in {"ValueError", "TypeError"} THEN [exc |-> "none", ret |-> FALSE]
        ELSE [exc |-> r.exc, ret |-> FALSE]

(***************************************************************************)
(* Selector                                                                *)
(***************************************************************************)
K_limit == <<"l", "i", "m", "i", "t">>
K_offset == <<"o", "f", "f", "s", "e", "t">>
K_marker == <<"m", "a", "r", "k", "e", "r">>
K_sort == <<"s", "o", "r", "t">>

\* the Selector of flask_kit/simple_router/simple_router.py and the one of
\* flask_kit/simple_router.py
Package == "simple_router/simple_router.py"
Flat == "simple_router.py"

\* `if is_non_neg_int(v): return int(v)` and `return None`: what is returned
\* (ret) and the exception that escapes (exc)
int_or_none(v) ==
    LET t == is_non_neg_int(v)
    IN  IF t.exc # "none" THEN [exc |-> t.exc, ret |-> None]
        ELSE IF t.ret THEN [exc |-> int_of(v).exc, ret |-> Some(int_of(v).n)]
        ELSE [exc |-> "none", ret |-> None]

\* Selector.limit (the same text in both modules)
limit(a) == int_or_none(get(a, K_limit, None))

\* Selector.offset: the package module reads 'offset', the flat one 'marker'
offset(impl, a) ==
    IF impl = Package THEN int_or_none(get(a, K_offset, None))
    ELSE int_or_none(get(a, K_marker, Some(<<>>)))

\* Router.doc_read's view_list of the flat module, up to the clamping:
\* `limit = max(1, min(self.max_page, self.selector.limit()))` and
\* `offset = max(0, self.selector.offset())` with self.max_page = 500; min and
\* max raise TypeError when they are to compare None with an int
view_list(a) ==
    LET l == limit(a)
        o == offset(Flat, a)
        min_l == IF l.ret[1] < 500 THEN l.ret[1] ELSE 500
    IN  IF l.exc # "none" THEN [exc |-> l.exc, limit |-> None, offset |-> None]
        ELSE IF l.ret = None THEN [exc |-> "TypeError", limit |-> None, offset |-> None]
        ELSE IF o.exc # "none" THEN [exc |-> o.exc, limit |-> None, offset |-> None]
        ELSE IF o.ret = None THEN [exc |-> "TypeError", limit |-> None, offset |-> None]
        ELSE [exc |-> "none",
              limit |-> Some(IF min_l > 1 THEN min_l ELSE 1),
              offset |-> Some(IF o.ret[1] > 0 THEN o.ret[1] ELSE 0)]

\* a filter value: a str, or the list of str of an in / nin
StrValue(s) == [kind |-> "str", v |-> s]
ListValue(l) == [kind |-> "list", v |-> l]

\* [v.strip() for v in value.split(',') if v.strip()]
RECURSIVE stripped_segments(_)
stripped_segments(segs) ==
    IF segs = <<>> THEN <<>>
    ELSE IF strip(Head(segs)) # <<>>
        THEN <<strip(Head(segs))>> \o stripped_segments(Tail(segs))
    ELSE stripped_segments(Tail(segs))

\* a slip: the empty segments are kept
filter_descriptor_keep_empty(final_key, arg) ==
    LET qv == qualified_value(arg, filter_ops, TRUE, S_eq)
        op == qv[1]
        lst == split(qv[2], ",")
    IN  [field |-> final_key, op |-> op,
         value |-> IF op \in {S_in, S_nin}
                   THEN ListValue([k \in 1..Len(lst) |-> strip(lst[k])])
                   ELSE StrValue(qv[2])]

\* the body of the inner loop of Selector.filter: the descriptor of one value
filter_descriptor(final_key, arg) ==
    LET qv == qualified_value(arg, filter_ops, TRUE, S_eq)
        op == qv[1]
    IN  [field |-> final_key, op |-> op,
         value |-> IF op \in {S_in, S_nin}
                   THEN ListValue(stripped_segments(split(qv[2], ",")))
                   ELSE StrValue(qv[2])]

RECURSIVE filter_values(_, _, _)
filter_values(key, m, vals) ==
    IF vals = <<>> THEN <<>>
    ELSE <<filter_descriptor(mapping_get(m, key), Head(vals))>>
         \o filter_values(key, m, Tail(vals))

\* `only is not None and key not in only`
excluded(o, key) == o # None /\ key \notin o[1]

RECURSIVE filter_keys(_, _, _, _, _)
filter_keys(impl, a, ks, o, m) ==
    IF ks = <<>> THEN <<>>
    ELSE LET key == Head(ks)
             skip == IF impl = Package THEN key = <<>> \/ excluded(o, key)
                     ELSE excluded(o, key)
         IN  (IF skip THEN <<>> ELSE filter_values(key, m, getlist(a, key)))
             \o filter_keys(impl, a, Tail(ks), o, m)

\* a slip: the descriptors are grouped by key in reverse key order
filter_reversed(impl, a, o, m) ==
    LET ks == keys(a)
    IN  filter_keys(impl, a, [k \in 1..Len(ks) |-> ks[Len(ks) + 1 - k]], o, m)

\* Selector.filter
filter(impl, a, o, m) == filter_keys(impl, a, keys(a), o, m)

\* a slip: the direction is read in front of the field (qualifier_first = True)
sort_descriptor_qualifier_first(key, m) ==
    LET qv == qualified_value(key, sort_dir, TRUE, S_desc)
    IN  [field |-> mapping_get(m, qv[2]), direction |-> qv[1]]

\* the descriptor of one token in the package module's Selector.sort
sort_descriptor(key, m) ==
    LET qv == qualified_value(key, sort_dir, FALSE, S_desc)
    IN  [field |-> mapping_get(m, qv[2]), direction |-> qv[1]]

\* Selector.sort of the package module: a list of descriptors
RECURSIVE sort_keys_list(_, _, _)
sort_keys_list(sort_keys, o, m) ==
    IF sort_keys = <<>> THEN <<>>
    ELSE LET key == Head(sort_keys)
         IN  (IF key = <<>> \/ excluded(o, key) THEN <<>>
              ELSE <<sort_descriptor(key, m)>>)
             \o sort_keys_list(Tail(sort_keys), o, m)

\* d[key] = {direction, value} on an insertion-ordered dict, the sequence of
\* its items
dict_set(d, key, dir, val) ==
    LET item == [key |-> key, direction |-> dir, value |-> val]
    IN  IF \E i \in 1..Len(d) : d[i].key = key
        THEN [i \in 1..Len(d) |-> IF d[i].key = key THEN item ELSE d[i]]
        ELSE Append(d, item)

\* Selector.sort of the flat module: a dict final_key -> {direction, value}
RECURSIVE sort_keys_dict(_, _, _, _)
sort_keys_dict(sort_keys, o, m, final_sorting) ==
    IF sort_keys = <<>> THEN final_sorting
    ELSE LET key == Head(sort_keys)
             qv == qualified_value(key, sort_dir, FALSE, S_desc)
         IN  sort_keys_dict(Tail(sort_keys), o, m,
                 IF excluded(o, key) THEN final_sorting
                 ELSE dict_set(final_sorting, mapping_get(m, key), qv[1], qv[2]))

\* Selector.sort; `if not sort_val: return {}`
sort(impl, a, o, m) ==
    LET sort_val == get(a, K_sort, None)
    IN  IF sort_val = None \/ sort_val[1] = <<>> THEN <<>>
        ELSE IF impl = Package
            THEN sort_keys_list(split(sort_val[1], ","), o, m)
        ELSE sort_keys_dict(split(sort_val[1], ","), o, m, <<>>)

(***************************************************************************)
(* Python values of responses: each is tagged with its type                *)
(***************************************************************************)
PyNone == [kind |-> "None"]
PyStr(s) == [kind |-> "str", v |-> s]
PyInt(n) == [kind |-> "int", v |-> n]
PyBool(b) == [kind |-> "bool", v |-> b]
\* a dict is the sequence of its <<key, value>> items, in insertion order
PyDict(items) == [kind |-> "dict", v |-> items]
PyList(elems) == [kind |-> "list", v |-> elems]
PyTuple(elems) == [kind |-> "tuple", v |-> elems]

S_error == <<"e", "r", "r", "o", "r">>
S_success == <<"s", "u", "c", "c", "e", "s", "s">>
S_access_denied == <<"a", "c", "c", "e", "s", "s", "_", "d", "e", "n", "i", "e", "d">>
S_custom == <<"c", "u", "s", "t", "o", "m">>

(***************************************************************************)
(* bac.py                                                                  *)
(***************************************************************************)
\* one argument of allow / deny: a flag, or a list of flags
Flag(p) == [is_list |-> FALSE, flags |-> <<p>>]
FlagList(l) == [is_list |-> TRUE, flags |-> l]

\* `perm if isinstance(perm, list) else [perm]`
perm_list(perm) == perm.flags

\* `all(p in user_perm for p in perm_list)`
all_common(perm, user_perm) ==
    \A i \in 1..Len(perm_list(perm)) : InList(perm_list(perm)[i], user_perm)

\* a slip: any(common) in place of all(common)
check_permissions_any(perms, match, no_match, user_perm) ==
    IF \E k \in 1..Len(perms) :
          \E i \in 1..Len(perm_list(perms[k])) : InList(perm_list(perms[k])[i], user_perm)
    THEN match ELSE no_match

\* _check_permissions: which of the two callbacks is called; its result is
\* what is returned
RECURSIVE check_permissions(_, _, _, _)
check_permissions(perms, match, no_match, user_perm) ==
    IF perms = <<>> THEN no_match
    ELSE IF all_common(Head(perms), user_perm) THEN match
    ELSE check_permissions(Tail(perms), match, no_match, user_perm)

\* _f_perm: the call of f that with_permissions makes. `not arg_name` holds
\* for None and for ''
f_perm(kw, name, user_perm) ==
    IF name = None \/ name = Some(<<>>) THEN [call |-> "f", kwargs |-> kw]
    ELSE [call |-> "f",
          kwargs |-> [k \in DOMAIN kw \cup {name[1]} |->
                        IF k = name[1] THEN user_perm ELSE kw[k]]]

\* BasicAccessControl._denied as a callback
denied == [call |-> "denied", kwargs |-> <<>>]

\* BasicAccessControl.default_denied_response, and what the `denied` callback
\* of this model returns
default_denied_response ==
    PyTuple(<<PyDict(<<<<S_error, PyStr(S_access_denied)>>>>), PyInt(403)>>)
custom_denied_response ==
    PyTuple(<<PyDict(<<<<S_error, PyStr(S_custom)>>>>), PyInt(401)>>)
\* what the handler f of this model returns
f_result == PyBool(TRUE)

\* the callback that allow(...)'s `decorated` ends up calling
allow(perms, name, kw, user_perm) ==
    check_permissions(perms, f_perm(kw, name, user_perm), denied, user_perm)

\* a slip: deny with the callbacks of allow
deny_not_inverted(perms, name, kw, user_perm) ==
    check_permissions(perms, f_perm(kw, name, user_perm), denied, user_perm)

\* the callback that deny(...)'s `decorated` ends up calling
deny(perms, name, kw, user_perm) ==
    check_permissions(perms, denied, f_perm(kw, name, user_perm), user_perm)

\* a slip: pass_permissions calls f with the caller's arguments alone
pass_permissions_forgets(name, kw, user_perm) == [call |-> "f", kwargs |-> kw]

\* the callback that pass_permissions(...)'s `decorated` calls
pass_permissions(name, kw, user_perm) == f_perm(kw, name, user_perm)

(***************************************************************************)
(* json_formatter.py                                                       *)
(***************************************************************************)
json_mime == <<"a", "p", "p", "l", "i", "c", "a", "t", "i", "o", "n", "/", "j", "s", "o", "n">>
text_mime == <<"t", "e", "x", "t", "/", "p", "l", "a", "i", "n">>
default_headers == <<>>
S_content_type == <<"C", "o", "n", "t", "e", "n", "t", "-", "T", "y", "p", "e">>

\* an instance of a class json does not know; to_dict is what its class's
\* to_dict() returns, if the class has one
PyObject(to_dict) == [kind |-> "object", v |-> to_dict]

\* bool(v)
truthy(v) ==
    CASE v.kind = "None" -> FALSE
      [] v.kind = "bool" -> v.v
      [] v.kind = "int" -> v.v # 0
      [] v.kind \in {"str", "list", "tuple", "dict"} -> Len(v.v) > 0
      [] OTHER -> TRUE

\* d[k] = v on a dict: a key that is there keeps its place
dict_setitem(items, k, v) ==
    IF \E i \in 1..Len(items) : items[i][1] = k
    THEN [i \in 1..Len(items) |-> IF items[i][1] = k THEN <<k, v>> ELSE items[i]]
    ELSE Append(items, <<k, v>>)

\* a slip: {**b, **a}, the keys of a keep their values
RECURSIVE dict_merge_first_wins(_, _)
dict_merge_first_wins(a, b) ==
    IF b = <<>> THEN a
    ELSE dict_merge_first_wins(
             IF \E i \in 1..Len(a) : a[i][1] = Head(b)[1] THEN a ELSE Append(a, Head(b)),
             Tail(b))

\* {**a, **b}
RECURSIVE dict_merge(_, _)
dict_merge(a, b) ==
    IF b = <<>> THEN a
    ELSE dict_merge(dict_setitem(a, Head(b)[1], Head(b)[2]), Tail(b))

\* str(n) of an int
DigitChars == <<"0", "1", "2", "3", "4", "5", "6", "7", "8", "9">>
RECURSIVE str_of_nat(_)
str_of_nat(n) ==
    IF n < 10 THEN <<DigitChars[n + 1]>>
    ELSE Append(str_of_nat(n \div 10), DigitChars[(n % 10) + 1])
str_of_int(n) == IF n < 0 THEN <<"-">> \o str_of_nat(0 - n) ELSE str_of_nat(n)

\* json's string literal: the quote and the backslash are escaped
RECURSIVE json_escape(_)
json_escape(s) ==
    IF s = <<>> THEN <<>>
    ELSE (IF Head(s) \in {"\"", "\\"} THEN <<"\\", Head(s)>> ELSE <<Head(s)>>)
         \o json_escape(Tail(s))
\* a slip: the text goes between the quotes as it is
json_string_unescaped(s) == <<"\"">> \o s \o <<"\"">>
json_string(s) == <<"\"">> \o json_escape(s) \o <<"\"">>

\* json.dumps(v, cls=Encoder) with json's default separators ', ' and ': ';
\* exc is the exception it raises, s the text. Encoder.default is followed
\* for objects with and without to_dict
RECURSIVE json_dumps(_)
RECURSIVE json_dumps_elems(_, _)
RECURSIVE json_dumps_items(_, _)
json_dumps(v) ==
    CASE v.kind = "None" -> [exc |-> "none", s |-> <<"n", "u", "l", "l">>]
      [] v.kind = "bool" ->
           [exc |-> "none",
            s |-> IF v.v THEN <<"t", "r", "u", "e">> ELSE <<"f", "a", "l", "s", "e">>]
      [] v.kind = "int" -> [exc |-> "none", s |-> str_of_int(v.v)]
      [] v.kind = "str" -> [exc |-> "none", s |-> json_string(v.v)]
      [] v.kind \in {"list", "tuple"} ->
           LET r == json_dumps_elems(v.v, TRUE)
           IN  [exc |-> r.exc, s |-> <<"[">> \o r.s \o <<"]">>]
      [] v.kind = "dict" ->
           LET r == json_dumps_items(v.v, TRUE)
           IN  [exc |-> r.exc, s |-> <<"{">> \o r.s \o <<"}">>]
      [] OTHER ->
           IF v.v # None THEN json_dumps(v.v[1])
           ELSE [exc |-> "TypeError", s |-> <<>>]

json_dumps_elems(elems, first) ==
    IF elems = <<>> THEN [exc |-> "none", s |-> <<>>]
    ELSE LET h == json_dumps(Head(elems))
             t == json_dumps_elems(Tail(elems), FALSE)
             sep == IF first THEN <<>> ELSE <<",", " ">>
         IN  IF h.exc # "none" THEN h
             ELSE [exc |-> t.exc, s |-> sep \o h.s \o t.s]

json_dumps_items(items, first) ==
    IF items = <<>> THEN [exc |-> "none", s |-> <<>>]
    ELSE LET h == json_dumps(Head(items)[2])
             t == json_dumps_items(Tail(items), FALSE)
             sep == IF first THEN <<>> ELSE <<",", " ">>
         IN  IF h.exc # "none" THEN h
             ELSE [exc |-> t.exc,
                   s |-> sep \o json_string(Head(items)[1]) \o <<":", " ">> \o h.s \o t.s]

\* merge_tuples: zip_longest pads the shorter tuple with None
merge_tuples(defaults, values) ==
    LET vals == IF values.kind = "tuple" THEN values.v ELSE <<values>>
        n == IF Len(vals) > Len(defaults) THEN Len(vals) ELSE Len(defaults)
    IN  [i \in 1..n |->
           IF i <= Len(vals) /\ vals[i].kind # "None" THEN vals[i]
           ELSE IF i <= Len(defaults) THEN defaults[i]
           ELSE PyNone]

\* make_response with a slip in it: content_type_last lays the computed
\* Content-Type over the caller's headers, encode_str serializes a body that
\* is already a string
make_response_variant(resp, content_type_last, encode_str) ==
    LET merged == merge_tuples(<<PyStr(<<>>), PyInt(200), PyDict(<<>>)>>, resp)
    IN  IF Len(merged) # 3 THEN [exc |-> "ValueError", ret |-> PyNone]
        ELSE
        LET body == merged[1]
            headers == merged[3]
            has_status == resp.kind = "tuple" /\ Len(resp.v) >= 2
            empty_body == body.kind = "str" /\ body.v = <<>>
            status == IF resp.kind = "None" \/ (empty_body /\ ~has_status)
                      THEN PyInt(204) ELSE merged[2]
            encoded == body.kind # "str" \/ (encode_str /\ ~empty_body)
            dumped == IF encoded THEN json_dumps(body)
                      ELSE [exc |-> "none", s |-> body.v]
            content_type == PyStr(IF encoded THEN json_mime ELSE text_mime)
        IN  IF dumped.exc # "none" THEN [exc |-> dumped.exc, ret |-> PyNone]
            ELSE IF headers.kind # "dict" THEN [exc |-> "TypeError", ret |-> PyNone]
            ELSE [exc |-> "none",
                  ret |-> PyTuple(<<PyStr(dumped.s), status,
                                    PyDict(IF content_type_last
                                           THEN dict_setitem(
                                                    dict_merge(default_headers, headers.v),
                                                    S_content_type, content_type)
                                           ELSE dict_merge(
                                                    dict_setitem(default_headers,
                                                                 S_content_type,
                                                                 content_type),
                                                    headers.v))>>)]
make_response_content_type_last(resp) == make_response_variant(resp, TRUE, FALSE)
make_response_encodes_str(resp) == make_response_variant(resp, FALSE, TRUE)

\* make_response: exc is the exception it raises, ret the triple it returns
make_response(resp) ==
    LET merged == merge_tuples(<<PyStr(<<>>), PyInt(200), PyDict(<<>>)>>, resp)
    IN  IF Len(merged) # 3 THEN [exc |-> "ValueError", ret |-> PyNone]
        ELSE
        LET body == merged[1]
            headers == merged[3]
            has_status == resp.kind = "tuple" /\ Len(resp.v) >= 2
            empty_body == body.kind = "str" /\ body.v = <<>>
            status == IF resp.kind = "None" \/ (empty_body /\ ~has_status)
                      THEN PyInt(204) ELSE merged[2]
            dumped == IF body.kind # "str" THEN json_dumps(body)
                      ELSE [exc |-> "none", s |-> body.v]
            content_type == IF body.kind # "str" THEN json_mime ELSE text_mime
        IN  IF dumped.exc # "none" THEN [exc |-> dumped.exc, ret |-> PyNone]
            ELSE IF headers.kind # "dict" THEN [exc |-> "TypeError", ret |-> PyNone]
            ELSE [exc |-> "none",
                  ret |-> PyTuple(<<PyStr(dumped.s), status,
                                    PyDict(dict_merge(
                                        dict_setitem(default_headers, S_content_type,
                                                     PyStr(content_type)),
                                        headers.v))>>)]

(***************************************************************************)
(* Router (simple_router/simple_router.py)                                 *)
(***************************************************************************)
\* make_error(error, status=400)
make_error(error, status) ==
    PyTuple(<<PyDict(<<<<S_success, PyBool(FALSE)>>, <<S_error, error>>>>),
              PyInt(status)>>)

\* get_json(request): the parsed body, None when there is none to parse
get_json(request) == request

\* the schema engine. validate(document) leaves its findings in .errors and
\* the document with the schema's defaults applied in .document, and is true
\* when it found nothing; what it finds is the engine's own business
Validator_validate(document, found, defaults) ==
    [ok |-> ~truthy(found),
     errors |-> found,
     document |-> PyDict(dict_merge(defaults, document.v))]

\* a slip: the view calls the handler itself, decorator or not
call_handler_direct(dec, full_kwargs, ret) ==
    [f_called |-> TRUE, dec_called |-> FALSE, f_kwargs |-> full_kwargs,
     dec_kwargs |-> <<>>, response |-> ret]

\* `if self.decorator: response = self.decorator(f, *args, **full_kwargs)`,
\* `else: response = f(*args, **full_kwargs)`. The decorator either calls f
\* with what it got and returns f's result, or returns a denial of its own;
\* ret is what f returns when it is called
call_handler(dec, full_kwargs, ret) ==
    [f_called |-> dec # "blocking",
     dec_called |-> dec # "none",
     f_kwargs |-> IF dec # "blocking" THEN full_kwargs ELSE <<>>,
     dec_kwargs |-> IF dec # "none" THEN full_kwargs ELSE <<>>,
     response |-> IF dec = "blocking" THEN default_denied_response ELSE ret]

\* a slip: a failed validation does not return
decorated_route_falls_through(schema, dec, key, request, found, defaults, kw, ret) ==
    LET has_validator == truthy(schema)
        input_json == get_json(request)
        v == Validator_validate(IF truthy(input_json) THEN input_json ELSE PyDict(<<>>),
                                found, defaults)
        new_kwargs == IF has_validator THEN <<<<key, v.document>>>> ELSE <<>>
        full_kwargs == dict_merge(kw, new_kwargs)
        called == call_handler(dec, full_kwargs, ret)
    IN  [validated |-> has_validator,
         errors |-> IF has_validator THEN v.errors ELSE PyNone,
         document |-> IF has_validator THEN v.document ELSE PyNone,
         f_called |-> called.f_called, dec_called |-> called.dec_called,
         f_kwargs |-> called.f_kwargs, dec_kwargs |-> called.dec_kwargs,
         response |-> called.response]

\* decorated_route, the view of a route: schema is route's `validate`, dec
\* the router's decorator, key its data_key, request the request's body, kw
\* the call's keyword arguments; found and defaults are the schema engine's,
\* ret is what the handler f returns when it is called
decorated_route(schema, dec, key, request, found, defaults, kw, ret) ==
    LET has_validator == truthy(schema)
        input_json == get_json(request)
        v == Validator_validate(IF truthy(input_json) THEN input_json ELSE PyDict(<<>>),
                                found, defaults)
        new_kwargs == IF has_validator THEN <<<<key, v.document>>>> ELSE <<>>
        full_kwargs == dict_merge(kw, new_kwargs)
        called == call_handler(dec, full_kwargs, ret)
    IN  IF has_validator /\ ~v.ok
        THEN [validated |-> TRUE, errors |-> v.errors, document |-> v.document,
              f_called |-> FALSE, dec_called |-> FALSE, f_kwargs |-> <<>>,
              dec_kwargs |-> <<>>, response |-> make_error(v.errors, 400)]
        ELSE [validated |-> has_validator,
              errors |-> IF has_validator THEN v.errors ELSE PyNone,
              document |-> IF has_validator THEN v.document ELSE PyNone,
              f_called |-> called.f_called, dec_called |-> called.dec_called,
              f_kwargs |-> called.f_kwargs, dec_kwargs |-> called.dec_kwargs,
              response |-> called.response]

\* a slip: the view's result goes out as it is, as_json or not
response_decorator_never_formats(json, outcome) ==
    [exc |-> "none", ret |-> outcome.response]

\* a slip: what make_response raises is caught and answered with a 500
response_decorator_recovers(json, outcome) ==
    IF ~json THEN [exc |-> "none", ret |-> outcome.response]
    ELSE IF make_response(outcome.response).exc = "none"
         THEN make_response(outcome.response)
    ELSE [exc |-> "none",
          ret |-> PyTuple(<<PyStr(<<>>), PyInt(500),
                            PyDict(<<<<S_content_type, PyStr(text_mime)>>>>)>>)]

\* _response_decorator's `decorated` around the view's outcome
response_decorator(json, outcome) ==
    IF json THEN make_response(outcome.response)
    ELSE [exc |-> "none", ret |-> outcome.response]

(***************************************************************************)
(* Router: registration and the documentation route                        *)
(***************************************************************************)
\* s.strip(c) for a character c
RECURSIVE strip_chars(_, _)
strip_chars(s, c) ==
    IF s # <<>> /\ Head(s) = c THEN strip_chars(Tail(s), c)
    ELSE IF s # <<>> /\ s[Len(s)] = c THEN strip_chars(SubSeq(s, 1, Len(s) - 1), c)
    ELSE s

valid_methods ==
    <<<<"g", "e", "t">>, <<"p", "o", "s", "t">>, <<"p", "u", "t">>, <<"p", "a", "t", "c", "h">>,
      <<"d", "e", "l", "e", "t", "e">>, <<"h", "e", "a", "d">>,
      <<"o", "p", "t", "i", "o", "n", "s">>>>

\* a slip: the accessor's name is taken as it is written
Router_getattr_case_sensitive(item) ==
    [exc |-> IF InList(item, valid_methods) THEN "none" ELSE "AttributeError",
     method |-> item]

\* Router.__getattr__(item): AttributeError unless item.lower() is a valid
\* method; the accessor it returns calls route with method=item.upper()
Router_getattr(item) ==
    LET small == <<"a", "b", "c", "d", "e", "f", "g", "h", "i", "j", "k", "l", "m", "n", "o", "p", "q", "r", "s", "t", "u", "v", "w", "x", "y", "z">>
        capital == <<"A", "B", "C", "D", "E", "F", "G", "H", "I", "J", "K", "L", "M", "N", "O", "P", "Q", "R", "S", "T", "U", "V", "W", "X", "Y", "Z">>
        at(letters, c) == CHOOSE k \in 1..Len(letters) : letters[k] = c
        lower(s) == [i \in 1..Len(s) |->
                        IF InList(s[i], capital) THEN small[at(capital, s[i])] ELSE s[i]]
        upper(s) == [i \in 1..Len(s) |->
                        IF InList(s[i], small) THEN capital[at(small, s[i])] ELSE s[i]]
    IN  IF ~InList(lower(item), valid_methods)
        THEN [exc |-> "AttributeError", method |-> <<>>]
        ELSE [exc |-> "none", method |-> upper(item)]

\* a slip: an entry is written over the whole registry
document_route_forgets(registry, prefix, f, rule, method, endpoint, cerberus_schema) ==
    PyDict(<<<<<<"/">> \o strip_chars(prefix, "/") \o rule,
               PyDict(<<<<method,
                          PyDict(<<<<<<"d", "e", "s", "c", "r", "i", "p", "t", "i", "o", "n">>, PyNone>>,
                                   <<<<"n", "a", "m", "e">>, PyStr(endpoint)>>>>)>>>>)>>>>)

\* _document_route: the registry after routes[full_rule][method] is set.
\* f is the handler: its __name__ and its __doc__
document_route(registry, prefix, f, rule, method, endpoint, cerberus_schema) ==
    LET full_rule == <<"/">> \o strip_chars(prefix, "/") \o rule
        methods == IF \E i \in 1..Len(registry.v) : registry.v[i][1] = full_rule
                   THEN registry.v[CHOOSE i \in 1..Len(registry.v) :
                                       registry.v[i][1] = full_rule][2].v
                   ELSE <<>>
        description == IF f.doc = None THEN PyNone
                       ELSE IF f.doc[1] = <<>> THEN PyStr(<<>>)
                       ELSE PyStr(strip(f.doc[1]))
        entry == <<<<<<"d", "e", "s", "c", "r", "i", "p", "t", "i", "o", "n">>, description>>,
                   <<<<"n", "a", "m", "e">>, PyStr(endpoint)>>>>
                 \o (IF truthy(cerberus_schema)
                     THEN <<<<<<"p", "a", "r", "a", "m", "e", "t", "e", "r", "s">>, cerberus_schema>>>>
                     ELSE <<>>)
    IN  PyDict(dict_setitem(registry.v, full_rule,
                            PyDict(dict_setitem(methods, method, PyDict(entry)))))

\* a slip: only documented routes get a URL rule
route_rule_only_if_documented(rules, registry, prefix, docs_on, rule_path, method, schema, document, f) ==
    LET endpoint == <<"b", "p", "_", "n", "a", "m", "e">> \o <<"_">> \o f.name
        rule == <<"/">> \o strip_chars(rule_path, "/")
    IN  IF document /\ docs_on
        THEN [url_rules |-> Append(rules, [rule |-> rule, endpoint |-> endpoint,
                                           methods |-> <<method>>,
                                           view |-> [kind |-> "route",
                                                     validate |-> schema]]),
              routes |-> document_route(registry, prefix, f, rule, method, endpoint,
                                        schema)]
        ELSE [url_rules |-> rules, routes |-> registry]

\* route(rule_path, method, validate, document)(f): the blueprint's rules and
\* the registry after the registration; the blueprint's name is 'bp_name'
route(rules, registry, prefix, docs_on, rule_path, method, schema, document, f) ==
    LET endpoint == <<"b", "p", "_", "n", "a", "m", "e">> \o <<"_">> \o f.name
        rule == <<"/">> \o strip_chars(rule_path, "/")
    IN  [url_rules |-> Append(rules, [rule |-> rule, endpoint |-> endpoint,
                                      methods |-> <<method>>,
                                      view |-> [kind |-> "route", validate |-> schema]]),
         routes |-> IF document /\ docs_on
                    THEN document_route(registry, prefix, f, rule, method, endpoint,
                                        schema)
                    ELSE registry]

\* a slip: the view answers with the registry as it was at construction
documentation_view_stale(registry) == make_response(PyDict(<<>>))

\* _documentation_view
documentation_view(registry) == make_response(registry)

(***************************************************************************)
(* Inputs: raw strings are concatenations of at most MaxTok tokens         *)
(***************************************************************************)
Tokens == {<<" ">>, <<":">>, <<",">>, <<"x">>, S_eq, S_in, S_asc}

RECURSIVE Raws(_)
Raws(n) ==
    IF n = 0 THEN {<<>>}
    ELSE LET r == Raws(n - 1) IN r \cup {s \o t : s \in r, t \in Tokens}

(***************************************************************************)
(* Inputs of the Selector: query strings                                   *)
(***************************************************************************)
RECURSIVE Concats(_, _)
Concats(toks, n) ==
    IF n = 0 THEN {<<>>}
    ELSE LET r == Concats(toks, n - 1) IN r \cup {s \o t : s \in r, t \in toks}

FilterTokens ==
    {S_in \o <<":">>, S_nin \o <<":">>, S_eq \o <<":">>, <<"x">>, <<" ", "y", " ">>,
     <<",">>, <<":">>, <<" ">>}
SortTokens ==
    {<<"a">>, <<"b">>, <<":">> \o S_asc, <<":">> \o S_desc, S_asc \o <<":">>,
     <<":", "z">>, <<",">>, <<" ">>}
NumChars == {<<"0">>, <<"1">>, <<"2">>, <<"-">>, <<"+">>, <<" ">>, <<"_">>, <<"x">>}

\* the pairs that query strings of several parameters are made of
MultiPairs ==
    {<<<<"a">>, <<"x">>>>, <<<<"a">>, S_in \o <<":", "x", ",", " ", ",", " ", "y">>>>,
     <<<<"b">>, S_eq \o <<":", "y">>>>,
     <<<<>>, <<"x">>>>,
     <<K_limit, <<"1">>>>,
     <<K_offset, <<"2">>>>, <<K_offset, <<"x">>>>,
     <<K_marker, <<"0">>>>,
     <<K_sort, <<"a", ",", "b">> \o <<":">> \o S_asc>>}

\* values of 'sort' with an empty token between two others, and with a token
\* of two ':'
SortSamples ==
    {<<"a", ",", ",", "b", ":">> \o S_asc,
     <<"a", ":", "b", ":">> \o S_asc \o <<",", "c", ":">> \o S_asc}

RECURSIVE Queries(_)
Queries(n) ==
    IF n = 0 THEN {<<>>}
    ELSE LET r == Queries(n - 1) IN r \cup {Append(q, p) : q \in r, p \in MultiPairs}

ArgsInputs ==
    {<<<<<<"a">>, v>>>> : v \in Concats(FilterTokens, MaxFilterTok)}
    \cup {<<<<K_sort, v>>>> : v \in Concats(SortTokens, MaxSortTok) \cup SortSamples}
    \cup {<<<<k, v>>>> : k \in {K_limit, K_offset}, v \in Concats(NumChars, MaxNumLen)}
    \cup Queries(MaxArgs)
    \cup {<<<<K_limit, l>>, <<k, <<"2">>>>>> :
              l \in {<<"0">>, <<"1", "0", "0", "0">>}, k \in {K_offset, K_marker}}

\* the `only` and `mapping` arguments of filter and sort
OnlyInputs ==
    {None, Some({<<"a">>}), Some({<<>>, <<"a">>, <<"b">> \o <<":">> \o S_asc})}
MappingInputs == {<<>>, [k \in {<<"a">>} |-> <<"z">>]}

(***************************************************************************)
(* Specifications                                                          *)
(***************************************************************************)
QVIdle ==
    /\ raw_value = <<>>
    /\ valid = <<>>
    /\ qualifier_first = FALSE
    /\ default = <<>>
    /\ qv_result = <<>>
    /\ qv_pc = "idle"

SelIdle ==
    /\ sel_impl = Package
    /\ args = <<>>
    /\ only = None
    /\ mapping = <<>>
    /\ sel_op = "idle"
    /\ sel_result = <<>>
    /\ sel_raised = "none"

BacIdle ==
    /\ user_permissions = <<>>
    /\ custom_denied = FALSE
    /\ bac_op = "idle"
    /\ permissions = <<>>
    /\ arg_name = None
    /\ kwargs = <<>>
    /\ f_calls = 0
    /\ f_kwargs = <<>>
    /\ denied_calls = 0
    /\ bac_result = PyNone

RouterIdle ==
    /\ as_json = TRUE
    /\ decorator = "none"
    /\ data_key = <<>>
    /\ validate = PyNone
    /\ request_json = PyNone
    /\ route_kwargs = <<>>
    /\ validator_errors = PyNone
    /\ validator_document = PyNone
    /\ view_calls = 0
    /\ handler_calls = 0
    /\ decorator_calls = 0
    /\ handler_kwargs = <<>>
    /\ response = PyNone
    /\ raised = "none"
    /\ decorator_kwargs = <<>>
    /\ raw_response = PyNone
    /\ document_routes = FALSE
    /\ url_prefix = <<>>
    /\ routes = PyDict(<<>>)
    /\ url_rules = <<>>
    /\ router_call = [op |-> "none"]
    /\ threads = <<>>

\* make_response not called yet
NotCalled == [exc |-> "none", ret |-> PyNone, called |-> FALSE]
FmtIdle ==
    /\ fmt_resp = PyNone
    /\ formatted = NotCalled
    /\ reformatted = NotCalled

\* the parser alone
QVInit ==
    /\ raw_value \in Raws(MaxTok)
    /\ \E cfg \in {<<filter_ops, S_eq>>, <<sort_dir, S_desc>>} :
          valid = cfg[1] /\ default = cfg[2]
    /\ qualifier_first \in BOOLEAN
    /\ qv_result = <<>>
    /\ qv_pc = "call"
    /\ SelIdle
    /\ BacIdle
    /\ RouterIdle
    /\ FmtIdle

QVCall ==
    /\ qv_pc = "call"
    /\ qv_result' = qualified_value(raw_value, valid, qualifier_first, default)
    /\ qv_pc' = "done"
    /\ UNCHANGED <<raw_value, valid, qualifier_first, default>>
    /\ UNCHANGED <<selVars, bacVars, routerVars, fmtVars>>

QVNext == QVCall

SpecQV == QVInit /\ [][QVNext]_vars

\* a Selector over one request
SelInit(impl) ==
    /\ sel_impl = impl
    /\ args \in ArgsInputs
    /\ only = None
    /\ mapping = <<>>
    /\ sel_op = "none"
    /\ sel_result = <<>>
    /\ sel_raised = "none"
    /\ QVIdle
    /\ BacIdle
    /\ RouterIdle
    /\ FmtIdle

CallLimit ==
    /\ sel_op = "none"
    /\ sel_op' = "limit"
    /\ sel_result' = limit(args).ret
    /\ sel_raised' = limit(args).exc
    /\ UNCHANGED <<sel_impl, args, only, mapping>>
    /\ UNCHANGED <<qvVars, bacVars, routerVars, fmtVars>>

CallOffset ==
    /\ sel_op = "none"
    /\ sel_op' = "offset"
    /\ sel_result' = offset(sel_impl, args).ret
    /\ sel_raised' = offset(sel_impl, args).exc
    /\ UNCHANGED <<sel_impl, args, only, mapping>>
    /\ UNCHANGED <<qvVars, bacVars, routerVars, fmtVars>>

CallFilter ==
    /\ sel_op = "none"
    /\ \E o \in OnlyInputs, m \in MappingInputs :
          /\ only' = o
          /\ mapping' = m
          /\ sel_result' = filter(sel_impl, args, o, m)
    /\ sel_op' = "filter"
    /\ UNCHANGED <<sel_impl, args, sel_raised>>
    /\ UNCHANGED <<qvVars, bacVars, routerVars, fmtVars>>

CallSort ==
    /\ sel_op = "none"
    /\ \E o \in OnlyInputs, m \in MappingInputs :
          /\ only' = o
          /\ mapping' = m
          /\ sel_result' = sort(sel_impl, args, o, m)
    /\ sel_op' = "sort"
    /\ UNCHANGED <<sel_impl, args, sel_raised>>
    /\ UNCHANGED <<qvVars, bacVars, routerVars, fmtVars>>

\* the list view of Router.doc_read (flat module) is requested
CallViewList ==
    /\ sel_op = "none"
    /\ sel_op' = "view_list"
    /\ \E v \in {view_list(args)} :
          /\ sel_result' = <<v.limit, v.offset>>
          /\ sel_raised' = v.exc
    /\ UNCHANGED <<sel_impl, args, only, mapping>>
    /\ UNCHANGED <<qvVars, bacVars, routerVars, fmtVars>>

SelNext == CallLimit \/ CallOffset \/ CallFilter \/ CallSort

\* the Selector of flask_kit/simple_router/simple_router.py
SpecSelector == SelInit(Package) /\ [][SelNext]_vars

\* the Selector of flask_kit/simple_router.py
SpecSelectorFlat == SelInit(Flat) /\ [][SelNext \/ CallViewList]_vars

\* the permission decorators over a permission source that changes
UserPermissionLists == {<<>>, <<"p1">>, <<"p2">>, <<"p1", "p2">>, <<"p2", "p1">>}
PermItems ==
    {Flag("p1"), Flag("p2"), FlagList(<<>>), FlagList(<<"p1", "p2">>)}
RECURSIVE PermissionArgs(_)
PermissionArgs(n) ==
    IF n = 0 THEN {<<>>}
    ELSE LET r == PermissionArgs(n - 1)
         IN  r \cup {Append(a, i) : a \in r, i \in PermItems}
S_permissions == <<"p">>
ArgNames == {None, Some(<<>>), Some(S_permissions)}
KwargsInputs ==
    {<<>>, [k \in {<<"x">>} |-> <<"1">>], [k \in {<<"x">>, S_permissions} |-> <<"1">>]}

\* a handler decorated once, with allow, deny or pass_permissions
BacInit ==
    /\ user_permissions \in UserPermissionLists
    /\ custom_denied \in BOOLEAN
    /\ bac_op \in {"allow", "deny", "pass_permissions"}
    /\ permissions \in PermissionArgs(MaxPermSets)
    /\ bac_op = "pass_permissions" => permissions = <<>>
    /\ arg_name \in ArgNames
    /\ kwargs = <<>>
    /\ f_calls = 0
    /\ f_kwargs = <<>>
    /\ denied_calls = 0
    /\ bac_result = PyNone
    /\ QVIdle
    /\ SelIdle
    /\ RouterIdle
    /\ FmtIdle

\* a slip: the lookup's result is captured once, when the source held p1
get_permissions_captured == <<"p1">>

\* `user_perm = self._get_permissions()`, the first statement of every
\* `decorated`: what the permission source holds at the time of the call
get_permissions == user_permissions

\* the permission source changes between calls
ChangePermissions ==
    /\ \E l \in UserPermissionLists : l # user_permissions /\ user_permissions' = l
    /\ UNCHANGED <<custom_denied, bac_op, permissions, arg_name, kwargs,
                   f_calls, f_kwargs, denied_calls, bac_result>>
    /\ UNCHANGED <<qvVars, selVars, routerVars, fmtVars>>

\* `decorated` runs the chosen callback: f, or BasicAccessControl._denied
Decorated(kw, callback) ==
    /\ f_calls + denied_calls < MaxCalls
    /\ kwargs' = kw
    /\ IF callback.call = "f"
       THEN /\ f_calls' = f_calls + 1
            /\ f_kwargs' = callback.kwargs
            /\ bac_result' = f_result
            /\ UNCHANGED denied_calls
       ELSE /\ denied_calls' = denied_calls + 1
            /\ bac_result' = IF custom_denied THEN custom_denied_response
                             ELSE default_denied_response
            /\ UNCHANGED <<f_calls, f_kwargs>>
    /\ UNCHANGED <<user_permissions, custom_denied, bac_op, permissions, arg_name>>
    /\ UNCHANGED <<qvVars, selVars, routerVars, fmtVars>>

CallAllow ==
    /\ bac_op = "allow"
    /\ \E kw \in KwargsInputs :
          Decorated(kw, allow(permissions, arg_name, kw, get_permissions))

CallDeny ==
    /\ bac_op = "deny"
    /\ \E kw \in KwargsInputs :
          Decorated(kw, deny(permissions, arg_name, kw, get_permissions))

CallPassPermissions ==
    /\ bac_op = "pass_permissions"
    /\ \E kw \in KwargsInputs :
          Decorated(kw, pass_permissions(arg_name, kw, get_permissions))

BacNext == ChangePermissions \/ CallAllow \/ CallDeny \/ CallPassPermissions

SpecBac == BacInit /\ [][BacNext]_vars

\* a Router with one route, invoked over and over
S_data == <<"d", "a", "t", "a">>
S_payload == <<"p", "a", "y", "l", "o", "a", "d">>
S_test == <<"t">>
S_other == <<"u">>
S_id == <<"i", "d">>
S_min == <<"m", "i", "n">>
S_required == <<"r", "e", "q">>
S_header == <<"X">>

\* Router(decorator=...): none, one that calls f and returns its result, one
\* that answers by itself
Decorators == {"none", "passthrough", "blocking"}
DataKeys == {S_data, S_payload}
\* route(validate=...): no schema, the empty schema, a schema
Schemas == <<PyNone, PyDict(<<>>), PyDict(<<<<S_test, PyStr(S_required)>>>>)>>
\* request.get_json(silent=True, force=True): None when the body is no JSON
Bodies ==
    <<PyNone, PyDict(<<>>), PyDict(<<<<S_test, PyInt(0 - 1)>>>>)>>
\* validator.errors: a mapping of fields to lists of messages, empty when the
\* document is valid
Errors ==
    <<PyDict(<<>>),
      PyDict(<<<<S_test, PyList(<<PyStr(S_min)>>)>>>>),
      PyDict(<<<<S_test, PyList(<<PyStr(S_min), PyStr(S_required)>>)>>,
               <<S_other, PyList(<<PyStr(S_required)>>)>>>>)>>
\* the defaults of the schema
Defaults == <<<<>>, <<<<S_test, PyInt(0)>>>>>>
RouteKwargs == <<<<>>, <<<<S_id, PyStr(<<"7">>)>>, <<S_data, PyStr(<<"x">>)>>>>>>
\* what the handler returns
HandlerReturns ==
    <<PyNone,
      PyStr(<<>>),
      PyStr(<<"o", "k">>),
      PyDict(<<<<S_test, PyInt(12)>>>>),
      PyList(<<PyStr(<<"a", "\"">>), PyBool(TRUE), PyNone>>),
      PyTuple(<<PyStr(<<>>), PyInt(200)>>),
      PyTuple(<<PyDict(<<>>), PyInt(201)>>),
      PyTuple(<<PyNone, PyNone, PyDict(<<<<S_header, PyStr(<<"1">>)>>>>)>>),
      PyTuple(<<PyStr(<<"o", "k">>), PyInt(200),
                PyDict(<<<<S_content_type, PyStr(<<"x">>)>>>>)>>),
      PyTuple(<<PyStr(<<>>), PyInt(200), PyDict(<<>>), PyNone>>),
      PyObject(None),
      PyTuple(<<PyDict(<<<<S_test, PyList(<<PyObject(None)>>)>>>>), PyInt(200)>>),
      PyObject(Some(PyDict(<<<<S_id, PyInt(3)>>>>)))>>

RouterInit ==
    /\ as_json \in BOOLEAN
    /\ decorator \in Decorators
    /\ data_key \in DataKeys
    /\ \E i \in 1..Len(Schemas) : validate = Schemas[i]
    /\ request_json = PyNone
    /\ route_kwargs = <<>>
    /\ validator_errors = PyNone
    /\ validator_document = PyNone
    /\ view_calls = 0
    /\ handler_calls = 0
    /\ decorator_calls = 0
    /\ handler_kwargs = <<>>
    /\ response = PyNone
    /\ raised = "none"
    /\ decorator_kwargs = <<>>
    /\ raw_response = PyNone
    /\ document_routes = FALSE
    /\ url_prefix = <<>>
    /\ routes = PyDict(<<>>)
    /\ url_rules = <<>>
    /\ router_call = [op |-> "none"]
    /\ threads = [t \in 1..2 |->
                     [pc |-> "start", body |-> PyNone, found |-> PyNone, ok |-> TRUE,
                      f_called |-> FALSE, f_kwargs |-> <<>>, raw |-> PyNone,
                      response |-> PyNone, raised |-> "none"]]
    /\ QVIdle
    /\ SelIdle
    /\ BacIdle
    /\ FmtIdle

\* one invocation of the route's view, as add_url_rule's view_func or directly
Invoke(request, found, defaults, kw, ret) ==
    /\ view_calls < MaxRequests
    /\ \E outcome \in {decorated_route(validate, decorator, data_key, request, found,
                                       defaults, kw, ret)} :
       \E out \in {response_decorator(as_json, outcome)} :
        /\ view_calls' = view_calls + 1
        /\ request_json' = request
        /\ route_kwargs' = kw
        /\ validator_errors' = IF outcome.validated THEN outcome.errors
                               ELSE validator_errors
        /\ validator_document' = IF outcome.validated THEN outcome.document
                                 ELSE validator_document
        /\ handler_calls' = handler_calls + (IF outcome.f_called THEN 1 ELSE 0)
        /\ decorator_calls' = decorator_calls + (IF outcome.dec_called THEN 1 ELSE 0)
        /\ handler_kwargs' = IF outcome.f_called THEN outcome.f_kwargs
                             ELSE handler_kwargs
        /\ decorator_kwargs' = IF outcome.dec_called THEN outcome.dec_kwargs
                               ELSE decorator_kwargs
        /\ raw_response' = outcome.response
        /\ response' = out.ret
        /\ raised' = out.exc
        /\ UNCHANGED <<as_json, decorator, data_key, validate>>
        /\ UNCHANGED <<document_routes, url_prefix, routes, url_rules, router_call,
                       threads>>
        /\ UNCHANGED <<qvVars, selVars, bacVars, fmtVars>>

\* the schema engine is asked only when the route has a validator, and the
\* handler returns only when it is called
CallRoute ==
    \E b \in 1..Len(Bodies), k \in 1..Len(RouteKwargs) :
      \E e \in (IF truthy(validate) THEN 1..Len(Errors) ELSE {1}),
         d \in (IF truthy(validate) THEN 1..Len(Defaults) ELSE {1}) :
        \E r \in (IF decorator = "blocking" \/ (truthy(validate) /\ truthy(Errors[e]))
                  THEN {1} ELSE 1..Len(HandlerReturns)) :
          Invoke(Bodies[b], Errors[e], Defaults[d], RouteKwargs[k], HandlerReturns[r])

RouterNext == CallRoute

SpecRouter == RouterInit /\ [][RouterNext]_vars

\* Two requests are in the view of the Router's one route at the same time.
\* The route's validator was made once, when the route was registered
\* (`validator = Validator(validate) if validate else None`), and both
\* requests use it; self.request is the request of the thread that reads it.
\* Lines 141-144 of decorated_route for request t: the body is read and, if
\* the route has a validator, validated; validate leaves its findings and the
\* normalized document in the validator and returns whether it found nothing.
\* What it finds depends on the body alone: the negative number is below the
\* schema's minimum, the other bodies are valid
Validate(t) ==
    /\ threads[t].pc = "start"
    /\ \E b \in 1..Len(Bodies) :
       \E e \in {IF truthy(validate) /\ b = 3 THEN 2 ELSE 1} :
       \E v \in {Validator_validate(IF truthy(get_json(Bodies[b])) THEN get_json(Bodies[b])
                                    ELSE PyDict(<<>>),
                                    Errors[e], Defaults[2])} :
          /\ threads' = [threads EXCEPT ![t].pc = "validated",
                                        ![t].body = Bodies[b],
                                        ![t].found = Errors[e],
                                        ![t].ok = ~truthy(validate) \/ v.ok]
          /\ validator_errors' = IF truthy(validate) THEN v.errors ELSE validator_errors
          /\ validator_document' = IF truthy(validate) THEN v.document
                                   ELSE validator_document
    /\ UNCHANGED <<as_json, decorator, data_key, validate, request_json, route_kwargs,
                   view_calls, handler_calls, decorator_calls, handler_kwargs, response,
                   raised, decorator_kwargs, raw_response, document_routes, url_prefix,
                   routes, url_rules, router_call>>
    /\ UNCHANGED <<qvVars, selVars, bacVars, fmtVars>>

\* Lines 145-154 for request t and the _response_decorator around them:
\* validator.errors goes into the error response, or validator.document to
\* the handler under data_key
Respond(t) ==
    /\ threads[t].pc = "validated"
    /\ \E called \in {call_handler(decorator,
                                   IF truthy(validate)
                                   THEN <<<<data_key, validator_document>>>> ELSE <<>>,
                                   HandlerReturns[3])} :
       \E raw \in {IF threads[t].ok THEN called.response
                   ELSE make_error(validator_errors, 400)} :
       \E out \in {response_decorator(as_json, [response |-> raw])} :
          /\ threads' = [threads EXCEPT ![t].pc = "done",
                                        ![t].f_called = threads[t].ok /\ called.f_called,
                                        ![t].f_kwargs = IF threads[t].ok
                                                        THEN called.f_kwargs ELSE <<>>,
                                        ![t].raw = raw,
                                        ![t].response = out.ret,
                                        ![t].raised = out.exc]
          /\ view_calls' = view_calls + 1
          /\ handler_calls' = handler_calls
                              + (IF threads[t].ok /\ called.f_called THEN 1 ELSE 0)
          /\ decorator_calls' = decorator_calls
                                + (IF threads[t].ok /\ called.dec_called THEN 1 ELSE 0)
    /\ UNCHANGED <<as_json, decorator, data_key, validate, request_json, route_kwargs,
                   validator_errors, validator_document, handler_kwargs, response,
                   raised, decorator_kwargs, raw_response, document_routes, url_prefix,
                   routes, url_rules, router_call>>
    /\ UNCHANGED <<qvVars, selVars, bacVars, fmtVars>>

SpecConcurrent == RouterInit /\ [][\E t \in 1..2 : Validate(t) \/ Respond(t)]_vars

\* a Router on a blueprint, and the routes registered on it through its
\* accessors. Each registration is the accessor's name, the arguments of the
\* accessor and the handler f it decorates
Registrations ==
    <<[item |-> <<"g", "e", "t">>, rule_path |-> <<"r", "o", "u", "t", "e">>, validate |-> Schemas[1],
       document |-> TRUE, f |-> [name |-> <<"r", "o", "u", "t", "e">>, doc |-> Some(<<" ", "d", "o", "c", " ">>)]],
      [item |-> <<"P", "o", "s", "t">>, rule_path |-> <<"/", "m", "y", "/", "r", "o", "u", "t", "e", "/">>, validate |-> Schemas[2],
       document |-> TRUE, f |-> [name |-> <<"m", "y", "_", "r", "o", "u", "t", "e">>, doc |-> None]],
      [item |-> <<"G", "E", "T">>, rule_path |-> <<"/", "r", "o", "u", "t", "e", "/">>, validate |-> Schemas[3],
       document |-> TRUE, f |-> [name |-> <<"o", "t", "h", "e", "r">>, doc |-> Some(<<>>)]],
      [item |-> <<"p", "u", "t">>, rule_path |-> <<"r", "o", "u", "t", "e">>, validate |-> Schemas[3],
       document |-> FALSE, f |-> [name |-> <<"r", "o", "u", "t", "e">>, doc |-> Some(<<"x">>)]],
      [item |-> <<"f", "e", "t", "c", "h">>, rule_path |-> <<"r", "o", "u", "t", "e">>, validate |-> Schemas[1],
       document |-> TRUE, f |-> [name |-> <<"r", "o", "u", "t", "e">>, doc |-> None]]>>

\* Router(blueprint, decorator, document_routes, request, data_key, as_json):
\* the registry is empty and _add_documentation_route has run if
\* document_routes is on
RegistryInit ==
    /\ as_json \in BOOLEAN
    /\ decorator \in {"none", "blocking"}
    /\ data_key = S_data
    /\ document_routes \in BOOLEAN
    /\ url_prefix \in (IF document_routes THEN {<<>>, <<"/", "a", "p", "i", "/">>} ELSE {<<>>})
    /\ routes = PyDict(<<>>)
    /\ url_rules = IF document_routes
                   THEN <<[rule |-> <<>>,
                           endpoint |-> <<"b", "p", "_", "n", "a", "m", "e", "_", "d", "o", "c", "u", "m", "e", "n", "t", "a", "t", "i", "o", "n">>,
                           methods |-> <<<<"G", "E", "T">>, <<"O", "P", "T", "I", "O", "N", "S">>>>,
                           view |-> [kind |-> "documentation", validate |-> PyNone]]>>
                   ELSE <<>>
    /\ router_call = [op |-> "none"]
    /\ threads = <<>>
    /\ validate = PyNone
    /\ request_json = PyNone
    /\ route_kwargs = <<>>
    /\ validator_errors = PyNone
    /\ validator_document = PyNone
    /\ view_calls = 0
    /\ handler_calls = 0
    /\ decorator_calls = 0
    /\ handler_kwargs = <<>>
    /\ response = PyNone
    /\ raised = "none"
    /\ decorator_kwargs = <<>>
    /\ raw_response = PyNone
    /\ QVIdle
    /\ SelIdle
    /\ BacIdle
    /\ FmtIdle

\* @router.<item>(rule_path, validate=..., document=...) over a handler f:
\* __getattr__, then route and its inner
Register ==
    /\ Len(url_rules) < MaxRoutes + (IF document_routes THEN 1 ELSE 0)
    /\ \E i \in 1..Len(Registrations) :
       \E reg \in {Registrations[i]} :
       \E accessor \in {Router_getattr(reg.item)} :
          /\ router_call' = [op |-> "register", reg |-> reg]
          /\ raised' = accessor.exc
          /\ IF accessor.exc # "none"
             THEN UNCHANGED <<url_rules, routes>>
             ELSE \E out \in {route(url_rules, routes, url_prefix, document_routes,
                                    reg.rule_path, accessor.method, reg.validate,
                                    reg.document, reg.f)} :
                     /\ url_rules' = out.url_rules
                     /\ routes' = out.routes
    /\ UNCHANGED <<as_json, decorator, data_key, validate, request_json, route_kwargs,
                   validator_errors, validator_document, view_calls, handler_calls,
                   decorator_calls, handler_kwargs, response, decorator_kwargs,
                   raw_response, document_routes, url_prefix, threads>>
    /\ UNCHANGED <<qvVars, selVars, bacVars, fmtVars>>

\* the blueprint dispatches a request to the view_func of one of its rules:
\* _documentation_view, or the decorated_route of a registered route
Serve ==
    /\ view_calls < MaxRequests
    /\ \E i \in 1..Len(url_rules) :
       \E b \in (IF truthy(url_rules[i].view.validate) THEN {1, 3} ELSE {1}) :
       \E r \in (IF url_rules[i].view.kind = "route" THEN {4} ELSE {1}) :
       \E e \in {IF truthy(url_rules[i].view.validate) /\ b = 3 THEN 2 ELSE 1} :
       \E outcome \in {IF url_rules[i].view.kind = "documentation"
                       THEN [validated |-> FALSE, f_called |-> FALSE,
                             dec_called |-> FALSE, response |-> routes]
                       ELSE decorated_route(url_rules[i].view.validate, decorator,
                                            data_key, Bodies[b], Errors[e], Defaults[1],
                                            <<>>, HandlerReturns[r])} :
       \E out \in {IF url_rules[i].view.kind = "documentation"
                   THEN documentation_view(routes)
                   ELSE response_decorator(as_json, outcome)} :
          /\ router_call' = [op |-> "serve", rule |-> i]
          /\ view_calls' = view_calls + 1
          /\ request_json' = Bodies[b]
          /\ validator_errors' = IF outcome.validated THEN outcome.errors
                                 ELSE validator_errors
          /\ validator_document' = IF outcome.validated THEN outcome.document
                                   ELSE validator_document
          /\ handler_calls' = handler_calls + (IF outcome.f_called THEN 1 ELSE 0)
          /\ decorator_calls' = decorator_calls + (IF outcome.dec_called THEN 1 ELSE 0)
          /\ handler_kwargs' = IF outcome.f_called THEN outcome.f_kwargs
                               ELSE handler_kwargs
          /\ decorator_kwargs' = IF outcome.dec_called THEN outcome.dec_kwargs
                                 ELSE decorator_kwargs
          /\ raw_response' = outcome.response
          /\ response' = out.ret
          /\ raised' = out.exc
    /\ UNCHANGED <<as_json, decorator, data_key, validate, route_kwargs,
                   document_routes, url_prefix, routes, url_rules, threads>>
    /\ UNCHANGED <<qvVars, selVars, bacVars, fmtVars>>

SpecRegistry == RegistryInit /\ [][Register \/ Serve]_vars

\* make_response alone. Its argument is a body, or a tuple of one to four
\* positions made of a body, a status and headers
FormatterInputs ==
    [body |-> <<PyNone,
                PyStr(<<>>),
                PyStr(<<"o", "k">>),
                PyStr(<<"{", "}">>),
                PyInt(0),
                PyBool(FALSE),
                PyDict(<<>>),
                PyDict(<<<<S_test, PyInt(12)>>, <<S_other, PyNone>>>>),
                PyDict(<<<<S_test, PyDict(<<<<S_id, PyStr(<<"a", "\"", "\\">>)>>>>)>>,
                         <<S_other, PyList(<<PyInt(0 - 1), PyBool(TRUE)>>)>>>>),
                PyList(<<>>),
                PyObject(None),
                PyObject(Some(PyDict(<<<<S_id, PyInt(3)>>>>)))>>,
     status |-> <<PyNone, PyInt(200), PyInt(123), PyInt(204)>>,
     headers |-> <<PyNone,
                   PyDict(<<>>),
                   PyDict(<<<<S_header, PyStr(<<"1">>)>>>>),
                   PyDict(<<<<S_header, PyStr(<<"1">>)>>,
                            <<S_content_type, PyStr(<<"x">>)>>>>),
                   PyList(<<>>)>>]

FmtInit ==
    /\ \E b \in 1..Len(FormatterInputs.body), s \in 1..Len(FormatterInputs.status),
          h \in 1..Len(FormatterInputs.headers), n \in 0..4 :
          LET body == FormatterInputs.body[b]
              status == FormatterInputs.status[s]
              headers == FormatterInputs.headers[h]
          IN  fmt_resp = CASE n = 0 -> body
                           [] n = 1 -> PyTuple(<<body>>)
                           [] n = 2 -> PyTuple(<<body, status>>)
                           [] n = 3 -> PyTuple(<<body, status, headers>>)
                           [] OTHER -> PyTuple(<<body, status, headers, PyNone>>)
    /\ formatted = NotCalled
    /\ reformatted = NotCalled
    /\ QVIdle
    /\ SelIdle
    /\ BacIdle
    /\ RouterIdle

\* make_response(resp)
Format ==
    /\ ~formatted.called
    /\ \E out \in {make_response(fmt_resp)} :
          formatted' = [exc |-> out.exc, ret |-> out.ret, called |-> TRUE]
    /\ UNCHANGED <<fmt_resp, reformatted>>
    /\ UNCHANGED <<qvVars, selVars, bacVars, routerVars>>

\* make_response on what make_response returned, as when a formatted view is
\* formatted once more
Reformat ==
    /\ formatted.called /\ formatted.exc = "none"
    /\ ~reformatted.called
    /\ \E out \in {make_response(formatted.ret)} :
          reformatted' = [exc |-> out.exc, ret |-> out.ret, called |-> TRUE]
    /\ UNCHANGED <<fmt_resp, formatted>>
    /\ UNCHANGED <<qvVars, selVars, bacVars, routerVars>>

SpecFormatter == FmtInit /\ [][Format \/ Reformat]_vars

(***************************************************************************)
(* What the claims say, stated without the parser's own helpers            *)
(***************************************************************************)
\* s without its leading and trailing blanks: the window of s that has only
\* blanks outside it and no blank at either end
Trimmed(s) ==
    IF \A k \in 1..Len(s) : s[k] = " " THEN <<>>
    ELSE LET i == CHOOSE a \in 1..Len(s) :
                    s[a] # " " /\ \A k \in 1..(a - 1) : s[k] = " "
             j == CHOOSE b \in 1..Len(s) :
                    s[b] # " " /\ \A k \in (b + 1)..Len(s) : s[k] = " "
         IN  [k \in 1..(j - i + 1) |-> s[i + k - 1]]

HasColon(s) == ":" \in {s[k] : k \in 1..Len(s)}

\* position of the first ':' of a string that has one
FirstColon(s) ==
    CHOOSE i \in 1..Len(s) : s[i] = ":" /\ \A k \in 1..(i - 1) : s[k] # ":"

BeforeFirstColon(s) == [k \in 1..(FirstColon(s) - 1) |-> s[k]]
AfterFirstColon(s) == [k \in 1..(Len(s) - FirstColon(s)) |-> s[FirstColon(s) + k]]

\* the candidate qualifier of a string that has a ':'
Candidate(s, first) ==
    IF first THEN Trimmed(BeforeFirstColon(s)) ELSE Trimmed(AfterFirstColon(s))

ValidSet(lst) == {lst[k] : k \in 1..Len(lst)}

\* C3: with no ':' in raw, or with a candidate qualifier that is not valid,
\* qualified_value returns (default, trim(raw)): the whole trimmed raw string.
C3_FallbackWholeRaw ==
    (qv_pc = "done" /\ (~HasColon(raw_value)
                         \/ Candidate(raw_value, qualifier_first) \notin ValidSet(valid)))
        => qv_result = <<default, Trimmed(raw_value)>>

\* the fallback was taken on a string that does have a ':' and blanks to trim
C3_Witness ==
    /\ qv_pc = "done"
    /\ HasColon(raw_value)
    /\ Candidate(raw_value, qualifier_first) \notin ValidSet(valid)
    /\ Trimmed(raw_value) # raw_value
    /\ qv_result[2] # Trimmed(AfterFirstColon(raw_value))
    /\ qv_result[2] # Trimmed(BeforeFirstColon(raw_value))

\* C4: qualifier first, and the part before the FIRST ':' trims to a valid
\* qualifier q: the result is (q, trim(everything after that first ':')).
C4_QualifierFirstSplit ==
    (qv_pc = "done" /\ qualifier_first /\ HasColon(raw_value)
        /\ Trimmed(BeforeFirstColon(raw_value)) \in ValidSet(valid))
        => qv_result = <<Trimmed(BeforeFirstColon(raw_value)),
                         Trimmed(AfterFirstColon(raw_value))>>

\* a valid qualifier in front of a value that holds a later ':'
C4_Witness ==
    /\ qv_pc = "done"
    /\ qualifier_first
    /\ HasColon(raw_value)
    /\ Trimmed(BeforeFirstColon(raw_value)) \in ValidSet(valid)
    /\ HasColon(AfterFirstColon(raw_value))
    /\ BeforeFirstColon(raw_value) # Trimmed(BeforeFirstColon(raw_value))
    /\ HasColon(qv_result[2])

(***************************************************************************)
(* The Selector's claims                                                   *)
(***************************************************************************)
\* the rank-th member (from 1) of a finite set of numbers, in increasing order
Ranked(K, rank) == CHOOSE k \in K : Cardinality({j \in K : j < k}) = rank - 1
RankOf(K, k) == 1 + Cardinality({j \in K : j < k})

\* the segments of s between its separators: segment k runs from after the
\* (k-1)-th separator to before the k-th one
SepPositions(s, sep) == {i \in 1..Len(s) : s[i] = sep}
SegmentCount(s, sep) == Cardinality(SepPositions(s, sep)) + 1
SegmentEdge(s, sep, n) ==
    IF n = 0 THEN 0
    ELSE IF n > Cardinality(SepPositions(s, sep)) THEN Len(s) + 1
    ELSE Ranked(SepPositions(s, sep), n)
Segment(s, sep, k) ==
    [i \in 1..(SegmentEdge(s, sep, k) - SegmentEdge(s, sep, k - 1) - 1)
        |-> s[SegmentEdge(s, sep, k - 1) + i]]

FilterOps == {S_eq, S_ne, S_lt, S_gt, S_ge, S_le, S_not, S_in, S_nin}
Qualified(v) == HasColon(v) /\ Trimmed(BeforeFirstColon(v)) \in FilterOps
ResolvedOp(v) == IF Qualified(v) THEN Trimmed(BeforeFirstColon(v)) ELSE S_eq
Payload(v) == IF Qualified(v) THEN Trimmed(AfterFirstColon(v)) ELSE Trimmed(v)

\* the non-blank comma-separated segments of a payload, trimmed, in order
KeptSegments(pl) ==
    {k \in 1..SegmentCount(pl, ",") : Trimmed(Segment(pl, ",", k)) # <<>>}
InList_Expected(pl) ==
    [r \in 1..Cardinality(KeptSegments(pl))
        |-> Trimmed(Segment(pl, ",", Ranked(KeptSegments(pl), r)))]

Renamed(f) == IF f \in DOMAIN mapping THEN mapping[f] ELSE f

\* the value occurrences that filter does not skip, and where the descriptor
\* of occurrence i stands: keys in order of first appearance, then occurrences
SkippedKey(key) == key = <<>> \/ (only # None /\ key \notin only[1])
Emitting == {i \in 1..Len(args) : ~SkippedKey(args[i][1])}
FirstOccurrence(key) ==
    CHOOSE i \in 1..Len(args) :
        args[i][1] = key /\ \A j \in 1..(i - 1) : args[j][1] # key
ComesBefore(j, i) ==
    \/ FirstOccurrence(args[j][1]) < FirstOccurrence(args[i][1])
    \/ args[j][1] = args[i][1] /\ j < i
DescriptorIndex(i) == 1 + Cardinality({j \in Emitting : ComesBefore(j, i)})

\* C5: a descriptor whose operator is in or nin carries the list of the
\* payload's comma-separated segments, trimmed, blanks dropped, in order; a
\* descriptor of any other operator carries one trimmed string, commas kept.
C5_InListSplit ==
    sel_op = "filter" =>
        \A i \in Emitting :
            DescriptorIndex(i) <= Len(sel_result) =>
                LET d == sel_result[DescriptorIndex(i)]
                    v == args[i][2]
                IN  IF d.op \in {S_in, S_nin}
                    THEN d.value = [kind |-> "list", v |-> InList_Expected(Payload(v))]
                    ELSE d.value = [kind |-> "str", v |-> Payload(v)]

\* an in: list that loses a blank segment, next to a plain value with a comma
C5_Witness ==
    /\ sel_op = "filter"
    /\ Len(sel_result) = 1
    /\ sel_result[1].op \in {S_in, S_nin}
    /\ SegmentCount(Payload(args[1][2]), ",") = 3
    /\ Len(sel_result[1].value.v) = 2
    /\ sel_result[1].value.v[2] # Segment(Payload(args[1][2]), ",", 3)

\* a value with a comma under an operator that is not in / nin stays one string
C5_WitnessPlain ==
    /\ sel_op = "filter"
    /\ Len(sel_result) = 1
    /\ sel_result[1].op = S_eq
    /\ sel_result[1].value.kind = "str"
    /\ "," \in {sel_result[1].value.v[k] : k \in 1..Len(sel_result[1].value.v)}

\* C6: filter emits exactly one descriptor per value occurrence of every key
\* that is not skipped, keys in order of first appearance and the occurrences
\* of one key in their own order.
C6_FilterOrder ==
    sel_op = "filter" =>
        /\ Len(sel_result) = Cardinality(Emitting)
        /\ \A i \in Emitting :
              /\ sel_result[DescriptorIndex(i)].field = Renamed(args[i][1])
              /\ sel_result[DescriptorIndex(i)].op = ResolvedOp(args[i][2])

\* three occurrences, the key of the first one repeated last: its descriptor
\* moves in front of the second key's
C6_Witness ==
    /\ sel_op = "filter"
    /\ Len(args) = 3
    /\ Len(sel_result) = 3
    /\ args[1][1] = args[3][1]
    /\ args[2][1] # args[1][1]
    /\ sel_result[1].op # sel_result[2].op
    /\ sel_result[2].field = sel_result[1].field
    /\ sel_result[3].field # sel_result[1].field

\* the tokens of the 'sort' parameter (none when it is missing or empty)
HasParam(key) == \E i \in 1..Len(args) : args[i][1] = key
ParamValue(key) == args[FirstOccurrence(key)][2]
SortValue == IF HasParam(K_sort) THEN ParamValue(K_sort) ELSE <<>>
SortTokenCount == IF SortValue = <<>> THEN 0 ELSE SegmentCount(SortValue, ",")
SortToken(k) == Segment(SortValue, ",", k)
NonEmptyTokens == {k \in 1..SortTokenCount : SortToken(k) # <<>>}

Directions == {S_asc, S_desc}
\* the direction follows the token's first ':'
DirectedAtFirst(tok) == HasColon(tok) /\ Trimmed(AfterFirstColon(tok)) \in Directions
FieldAtFirst(tok) ==
    IF DirectedAtFirst(tok) THEN Trimmed(BeforeFirstColon(tok)) ELSE Trimmed(tok)
DirectionAtFirst(tok) ==
    IF DirectedAtFirst(tok) THEN Trimmed(AfterFirstColon(tok)) ELSE S_desc

\* the direction is the token's suffix: what follows its last ':'
LastColon(s) ==
    CHOOSE i \in 1..Len(s) : s[i] = ":" /\ \A k \in (i + 1)..Len(s) : s[k] # ":"
BeforeLastColon(s) == [k \in 1..(LastColon(s) - 1) |-> s[k]]
AfterLastColon(s) == [k \in 1..(Len(s) - LastColon(s)) |-> s[LastColon(s) + k]]
DirectedAtLast(tok) == HasColon(tok) /\ Trimmed(AfterLastColon(tok)) \in Directions

\* C7: sort (called without `only`) returns one descriptor per non-empty
\* comma-separated token of the 'sort' parameter, in the order of the tokens;
\* empty tokens produce none.
C7_SortPerToken ==
    (sel_op = "sort" /\ only = None) =>
        /\ Len(sel_result) = Cardinality(NonEmptyTokens)
        /\ \A k \in NonEmptyTokens :
              LET d == sel_result[RankOf(NonEmptyTokens, k)]
              IN  /\ "field" \in DOMAIN d
                  /\ d.field = Renamed(FieldAtFirst(SortToken(k)))

\* tokens around an empty one, with different fields
C7_Witness ==
    /\ sel_op = "sort" /\ only = None
    /\ SortTokenCount = 3
    /\ SortToken(2) = <<>>
    /\ Len(sel_result) = 2
    /\ sel_result[1].field # sel_result[2].field

\* C8 as stated: a token that ends in ':asc' or ':desc' yields that direction
\* and the trimmed text before it as field; any other token yields 'desc' and
\* the whole trimmed token as field.
C8_DirectionIsSuffix ==
    (sel_op = "sort" /\ only = None) =>
        \A k \in NonEmptyTokens :
            LET d == sel_result[RankOf(NonEmptyTokens, k)]
                tok == SortToken(k)
            IN  IF DirectedAtLast(tok)
                THEN /\ d.direction = Trimmed(AfterLastColon(tok))
                     /\ d.field = Renamed(Trimmed(BeforeLastColon(tok)))
                ELSE /\ d.direction = S_desc
                     /\ d.field = Renamed(Trimmed(tok))

\* C8, amended: the direction is what follows the token's FIRST ':'. A token
\* whose text after its first ':' trims to asc or desc yields that direction
\* and the trimmed text before that ':' as field; any other token, one that
\* ends in ':asc' after an earlier ':' included, yields 'desc' and the whole
\* trimmed token as field.
C8_DirectionAfterFirstColon ==
    (sel_op = "sort" /\ only = None) =>
        \A k \in NonEmptyTokens :
            LET d == sel_result[RankOf(NonEmptyTokens, k)]
                tok == SortToken(k)
            IN  /\ d.direction = DirectionAtFirst(tok)
                /\ d.field = Renamed(FieldAtFirst(tok))

\* a token that ends in ':asc' behind an earlier ':' and comes out as 'desc',
\* next to one with a single ':' that comes out as 'asc'
C8_Witness ==
    /\ sel_op = "sort" /\ only = None
    /\ Len(sel_result) = 2 /\ SortTokenCount = 2
    /\ DirectedAtLast(SortToken(1)) /\ ~DirectedAtFirst(SortToken(1))
    /\ sel_result[1].direction = S_desc
    /\ HasColon(sel_result[1].field)
    /\ DirectedAtFirst(SortToken(2))
    /\ sel_result[2].direction = S_asc

\* an integer literal as int() reads it: blanks around, an optional sign,
\* digits with single underscores between them
DigitOf == "0" :> 0 @@ "1" :> 1 @@ "2" :> 2
Unsigned(s) ==
    LET t == Trimmed(s)
    IN  IF t # <<>> /\ t[1] \in {"+", "-"} THEN [k \in 1..(Len(t) - 1) |-> t[k + 1]] ELSE t
IsIntLiteral(s) ==
    LET u == Unsigned(s)
    IN  /\ u # <<>>
        /\ \A k \in 1..Len(u) : u[k] \in DOMAIN DigitOf \cup {"_"}
        /\ u[1] # "_" /\ u[Len(u)] # "_"
        /\ \A k \in 1..(Len(u) - 1) : ~(u[k] = "_" /\ u[k + 1] = "_")
DigitPositions(s) == {k \in 1..Len(Unsigned(s)) : Unsigned(s)[k] # "_"}
IsNegative(s) ==
    /\ Trimmed(s)[1] = "-"
    /\ \E k \in DigitPositions(s) : Unsigned(s)[k] # "0"
\* n is the number the literal's digits write
Writes(s, n) ==
    LET u == Unsigned(s)
        D == DigitPositions(s)
        L == Cardinality(D)
    IN  /\ n >= 0 /\ n < 10 ^ L
        /\ \A r \in 1..L : (n \div (10 ^ (L - r))) % 10 = DigitOf[u[Ranked(D, r)]]

\* what limit() and offset() are to return for the parameter `key`
ReturnsIntParam(key) ==
    /\ sel_raised = "none"
    /\ IF HasParam(key) /\ IsIntLiteral(ParamValue(key)) /\ ~IsNegative(ParamValue(key))
       THEN sel_result # None /\ Writes(ParamValue(key), sel_result[1])
       ELSE sel_result = None

\* C9: limit() returns the integer value of the 'limit' parameter when it is
\* present and parses as an integer >= 0, None when it is missing, empty,
\* negative or not a number, and never raises.
C9_Limit == sel_op = "limit" => ReturnsIntParam(K_limit)

\* limit=0 returned as 0, and a negative limit returned as None
C9_WitnessZero ==
    /\ sel_op = "limit"
    /\ HasParam(K_limit) /\ ParamValue(K_limit) = <<"0">>
    /\ sel_result = <<0>>

C9_Witness ==
    /\ sel_op = "limit"
    /\ HasParam(K_limit) /\ IsIntLiteral(ParamValue(K_limit))
    /\ Len(ParamValue(K_limit)) = 3
    /\ sel_result # None /\ sel_result[1] > 9

C9_WitnessNegative ==
    /\ sel_op = "limit"
    /\ HasParam(K_limit) /\ IsIntLiteral(ParamValue(K_limit))
    /\ IsNegative(ParamValue(K_limit))
    /\ sel_result = None

\* C10: offset() applies the rule of limit() to the parameter named 'offset',
\* and no other parameter name influences the result.
C10_Offset == sel_op = "offset" => ReturnsIntParam(K_offset)

C10_Witness ==
    /\ sel_op = "offset"
    /\ HasParam(K_offset) /\ HasParam(K_marker) /\ HasParam(K_limit)
    /\ sel_result = <<2>>

(***************************************************************************)
(* The permission decorators' claims                                       *)
(***************************************************************************)
\* some permission set has every one of its flags in the user's list
FlagsOf(perm) == {perm.flags[i] : i \in 1..Len(perm.flags)}
Held(user_perm) == {user_perm[i] : i \in 1..Len(user_perm)}
SomeSetContained(perms, user_perm) ==
    \E k \in 1..Len(perms) : FlagsOf(perms[k]) \subseteq Held(user_perm)

DenialResponse ==
    IF custom_denied
    THEN PyTuple(<<PyDict(<<<<S_error, PyStr(S_custom)>>>>), PyInt(401)>>)
    ELSE PyTuple(<<PyDict(<<<<S_error, PyStr(S_access_denied)>>>>), PyInt(403)>>)

\* equality of two tagged values, read off the tags first
SameValue(a, b) == a.kind = b.kind /\ a = b

\* a step that is one call of the decorated handler
IsCall == f_calls' + denied_calls' = f_calls + denied_calls + 1

\* C2: under allow, a call runs the handler if and only if some permission
\* set is fully contained in the list the lookup returns for that call; every
\* other call leaves the handler alone and returns the denial response, the
\* caller-supplied one when there is one, ({error: 'access_denied'}, 403) if not.
C2_AllowGate ==
    [][(bac_op = "allow" /\ IsCall) =>
          IF SomeSetContained(permissions, user_permissions)
          THEN f_calls' = f_calls + 1 /\ SameValue(bac_result', PyBool(TRUE))
          ELSE f_calls' = f_calls /\ SameValue(bac_result', DenialResponse)]_vars

\* one handler under allow with a two-flag set, let through once and turned
\* away once as the user's permissions changed
C2_Witness ==
    /\ bac_op = "allow"
    /\ f_calls = 1 /\ denied_calls = 1
    /\ Len(permissions) = 2
    /\ \E k \in 1..2 : permissions[k].is_list /\ Len(permissions[k].flags) = 2
    /\ \E k \in 1..2 : ~permissions[k].is_list
    /\ SameValue(bac_result, DenialResponse)

\* C11: under deny, a call runs the handler if and only if no permission set
\* is fully contained in the list the lookup returns for that call; when some
\* set is contained the handler is left alone and the denial response is
\* returned.
C11_DenyGate ==
    [][(bac_op = "deny" /\ IsCall) =>
          IF SomeSetContained(permissions, user_permissions)
          THEN f_calls' = f_calls /\ SameValue(bac_result', DenialResponse)
          ELSE f_calls' = f_calls + 1 /\ SameValue(bac_result', PyBool(TRUE))]_vars

\* one handler under deny with two permission sets, run once and turned away
\* once as the user's permissions changed
C11_Witness ==
    /\ bac_op = "deny"
    /\ Len(permissions) = 2
    /\ f_calls = 1 /\ denied_calls = 1
    /\ SomeSetContained(permissions, user_permissions)
    /\ SameValue(bac_result, DenialResponse)

\* the decision a decorator owes to the permission list l
Admits(l) ==
    CASE bac_op = "allow" -> SomeSetContained(permissions, l)
      [] bac_op = "deny" -> ~SomeSetContained(permissions, l)
      [] OTHER -> TRUE
\* the keyword the permission list is passed under, if there is one
Injects == arg_name # None /\ arg_name # Some(<<>>)

\* C12: the lookup is made at every call and never cached. In every sequence
\* of calls and changes of the permission source, each call under allow, deny
\* or pass_permissions decides by, and hands to the handler, the list the
\* source holds at the time of that call.
C12_LookupPerCall ==
    [][IsCall =>
          /\ (f_calls' = f_calls + 1) <=> Admits(user_permissions)
          /\ (f_calls' = f_calls + 1 /\ Injects) =>
                 f_kwargs'[arg_name[1]] = user_permissions]_vars

\* two calls with a change of the source between them: the handler ran with
\* the list of that time, and the later call was turned away by a list that is
\* not that one
C12_Witness ==
    /\ bac_op \in {"allow", "deny"}
    /\ Injects
    /\ f_calls = 1 /\ denied_calls = 1
    /\ SameValue(bac_result, DenialResponse)
    /\ f_kwargs[arg_name[1]] # user_permissions
    /\ Admits(f_kwargs[arg_name[1]])
    /\ ~Admits(user_permissions)

\* C13: under pass_permissions(argName) every call runs the handler, whatever
\* the permission list is; the handler gets the caller's keyword arguments and,
\* under argName, the list the source holds now; what the handler returns is
\* returned as it is.
C13_PassPermissions ==
    [][(bac_op = "pass_permissions" /\ IsCall) =>
          /\ f_calls' = f_calls + 1
          /\ SameValue(bac_result', PyBool(TRUE))
          /\ IF Injects
             THEN /\ DOMAIN f_kwargs' = DOMAIN kwargs' \cup {arg_name[1]}
                  /\ f_kwargs'[arg_name[1]] = user_permissions
                  /\ \A k \in DOMAIN kwargs' \ {arg_name[1]} : f_kwargs'[k] = kwargs'[k]
             ELSE f_kwargs' = kwargs']_vars

\* a user without permissions, let through twice, the second time with a
\* keyword of his own next to the list
C13_Witness ==
    /\ bac_op = "pass_permissions"
    /\ Injects
    /\ f_calls = 2 /\ denied_calls = 0
    /\ user_permissions = <<>>
    /\ DOMAIN kwargs = {<<"x">>}
    /\ DOMAIN f_kwargs = {<<"x">>, arg_name[1]}
    /\ f_kwargs[arg_name[1]] = <<>>

(***************************************************************************)
(* The Router's claims                                                     *)
(***************************************************************************)
\* the route was registered with a schema that makes a validator
HasSchema == validate.kind = "dict" /\ Len(validate.v) > 0
\* this step is an invocation of the route's view
ViewRan == view_calls' = view_calls + 1
\* the validator found something in the body
BodyRejected(e) == e.kind = "dict" /\ Len(e.v) > 0

\* the error mapping as JSON text, for the error structures of one and of two
\* fields that the schema engine reports here
ErrorTextOneField ==
    <<"{", "\"", "s", "u", "c", "c", "e", "s", "s", "\"", ":", " ", "f", "a",
      "l", "s", "e", ",", " ", "\"", "e", "r", "r", "o", "r", "\"", ":", " ",
      "{", "\"", "t", "\"", ":", " ", "[", "\"", "m", "i", "n", "\"", "]",
      "}", "}">>
ErrorTextTwoFields ==
    <<"{", "\"", "s", "u", "c", "c", "e", "s", "s", "\"", ":", " ", "f", "a",
      "l", "s", "e", ",", " ", "\"", "e", "r", "r", "o", "r", "\"", ":", " ",
      "{", "\"", "t", "\"", ":", " ", "[", "\"", "m", "i", "n", "\"", ",",
      " ", "\"", "r", "e", "q", "\"", "]", ",", " ", "\"", "u", "\"", ":",
      " ", "[", "\"", "r", "e", "q", "\"", "]", "}", "}">>
ErrorText(e) == IF Len(e.v) = 1 THEN ErrorTextOneField ELSE ErrorTextTwoFields

\* r has status 400 and carries {success: false, error: e}: as the pair itself
\* when the router does not format, as the JSON triple when it does
IsStatus(x, n) == x.kind = "int" /\ x.v = n
IsErrorMapping(b, e) ==
    /\ b.kind = "dict"
    /\ Len(b.v) = 2
    /\ \E i \in 1..2 : b.v[i][1] = S_success /\ SameValue(b.v[i][2], PyBool(FALSE))
    /\ \E i \in 1..2 : b.v[i][1] = S_error /\ SameValue(b.v[i][2], e)
IsErrorResponse(r, e) ==
    /\ r.kind = "tuple"
    /\ IF as_json
       THEN /\ Len(r.v) = 3
            /\ r.v[1].kind = "str"
            /\ r.v[1].v = ErrorText(e)
            /\ IsStatus(r.v[2], 400)
            /\ r.v[3].kind = "dict"
            /\ \E i \in 1..Len(r.v[3].v) :
                  /\ r.v[3].v[i][1] = S_content_type
                  /\ SameValue(r.v[3].v[i][2], PyStr(json_mime))
       ELSE /\ Len(r.v) = 2
            /\ IsErrorMapping(r.v[1], e)
            /\ IsStatus(r.v[2], 400)

Names(kw) == {kw[i][1] : i \in 1..Len(kw)}
Under(kw, name) == kw[CHOOSE i \in 1..Len(kw) : kw[i][1] = name][2]
\* this step called the handler
HandlerRan == handler_calls' = handler_calls + 1

Assembled(kw) ==
    /\ Len(kw) = Cardinality(Names(kw))
    /\ Names(kw) = Names(route_kwargs') \cup (IF HasSchema THEN {data_key} ELSE {})
    /\ HasSchema => SameValue(Under(kw, data_key), validator_document')
    /\ \A n \in Names(route_kwargs') \ (IF HasSchema THEN {data_key} ELSE {}) :
           SameValue(Under(kw, n), Under(route_kwargs', n))
\* the denial of the decorator that answers by itself
IsDenial(r) ==
    /\ r.kind = "tuple" /\ Len(r.v) = 2
    /\ IsStatus(r.v[2], 403)
    /\ r.v[1].kind = "dict" /\ Len(r.v[1].v) = 1
    /\ r.v[1].v[1][1] = S_error
    /\ SameValue(r.v[1].v[1][2], PyStr(S_access_denied))

\* C15: with a decorator on the Router, an invocation that gets past
\* validation calls the decorator exactly once, with the handler and the
\* assembled keyword arguments, and never the handler directly: the handler
\* runs once when the decorator calls it and not at all when the decorator
\* answers by itself, and what the decorator returns is what goes on to
\* formatting.
C15_DecoratorInCharge ==
    [][(ViewRan /\ decorator # "none" /\ ~BodyRejected(validator_errors')) =>
          /\ decorator_calls' = decorator_calls + 1
          /\ Assembled(decorator_kwargs')
          /\ IF decorator = "blocking"
             THEN /\ handler_calls' = handler_calls
                  /\ handler_kwargs' = handler_kwargs
                  /\ IsDenial(raw_response')
             ELSE /\ handler_calls' = handler_calls + 1
                  /\ Assembled(handler_kwargs')]_vars

\* two invocations on a router whose decorator answers by itself: the
\* decorator ran twice, with the validated document the second time, the
\* handler never
C15_Witness ==
    /\ decorator = "blocking"
    /\ HasSchema
    /\ view_calls = 2 /\ decorator_calls = 2 /\ handler_calls = 0
    /\ data_key \in Names(decorator_kwargs)
    /\ Cardinality(Names(decorator_kwargs)) = 2
    /\ IsDenial(raw_response)

\* two formatted triples are the same
SameTriple(a, b) ==
    /\ a.kind = "tuple" /\ b.kind = "tuple"
    /\ Len(a.v) = 3 /\ Len(b.v) = 3
    /\ SameValue(a.v[1], b.v[1])
    /\ SameValue(a.v[2], b.v[2])
    /\ a.v[3].kind = "dict" /\ b.v[3].kind = "dict"
    /\ Len(a.v[3].v) = Len(b.v[3].v)
    /\ \A i \in 1..Len(a.v[3].v) :
          /\ a.v[3].v[i][1] = b.v[3].v[i][1]
          /\ SameValue(a.v[3].v[i][2], b.v[3].v[i][2])

\* C16: with as_json on, an invocation returns make_response's triple of the
\* raw result of the handler, the decorator or the failed validation (and
\* raises what make_response raises on it); with as_json off it returns that
\* raw result as it is.
C16_FormattingSwitch ==
    [][ViewRan =>
          IF as_json
          THEN /\ raised' = make_response(raw_response').exc
               /\ raised' = "none" =>
                     SameTriple(response', make_response(raw_response').ret)
          ELSE /\ raised' = "none"
               /\ SameValue(response', raw_response')]_vars

\* a formatted denial: the decorator's ({error: 'access_denied'}, 403) went
\* out as JSON text with status 403
C16_Witness ==
    /\ as_json
    /\ view_calls >= 1
    /\ IsDenial(raw_response)
    /\ raised = "none"
    /\ response.kind = "tuple" /\ Len(response.v) = 3
    /\ response.v[1].kind = "str" /\ Len(response.v[1].v) > 2
    /\ IsStatus(response.v[2], 403)

(***************************************************************************)
(* make_response's claims                                                  *)
(***************************************************************************)
\* make_response returned a triple; its body, its status, its headers
Returned(f) == f.called /\ f.exc = "none"
BodyOf(f) == f.ret.v[1]
StatusOf(f) == f.ret.v[2]
HeadersOf(f) == f.ret.v[3].v
\* r is a tuple with a status in its second position
SuppliesStatus(r) == r.kind = "tuple" /\ Len(r.v) >= 2 /\ r.v[2].kind # "None"

\* C17: the status is 204 when the final body is the empty string and no
\* status was given (None, '', or a tuple that supplies none); a status that
\* the tuple supplies is returned as it is, whatever the body.
C17_EmptyBodyStatus ==
    Returned(formatted) =>
        IF SuppliesStatus(fmt_resp)
        THEN SameValue(StatusOf(formatted), fmt_resp.v[2])
        ELSE (BodyOf(formatted).kind = "str" /\ BodyOf(formatted).v = <<>>) =>
                 IsStatus(StatusOf(formatted), 204)

\* json.loads, as far as json.dumps' output goes: ok is whether a value was
\* read at the head of s, v the value, rest what follows it
ParseFailed == [ok |-> FALSE, v |-> PyNone, rest |-> <<>>]
Parsed(v, rest) == [ok |-> TRUE, v |-> v, rest |-> rest]
RECURSIVE SkipSpace(_)
SkipSpace(s) == IF s # <<>> /\ Head(s) = " " THEN SkipSpace(Tail(s)) ELSE s
StartsWith(s, w) == Len(s) >= Len(w) /\ SubSeq(s, 1, Len(w)) = w
Drop(s, n) == SubSeq(s, n + 1, Len(s))
\* the characters of a string literal, up to its closing quote
RECURSIVE ParseChars(_, _)
ParseChars(s, acc) ==
    IF s = <<>> THEN ParseFailed
    ELSE IF Head(s) = "\"" THEN Parsed(PyStr(acc), Tail(s))
    ELSE IF Head(s) = "\\"
         THEN IF Len(s) >= 2 /\ s[2] \in {"\"", "\\"}
              THEN ParseChars(Drop(s, 2), Append(acc, s[2]))
              ELSE ParseFailed
    ELSE ParseChars(Tail(s), Append(acc, Head(s)))
\* the digits of a number
RECURSIVE ParseDigits(_, _, _)
ParseDigits(s, n, seen) ==
    IF s # <<>> /\ \E d \in 1..10 : DigitChars[d] = Head(s)
    THEN ParseDigits(Tail(s), 10 * n + (CHOOSE d \in 1..10 : DigitChars[d] = Head(s)) - 1,
                     TRUE)
    ELSE IF seen THEN Parsed(PyInt(n), s) ELSE ParseFailed
RECURSIVE ParseValue(_)
RECURSIVE ParseElems(_, _)
RECURSIVE ParseItems(_, _)
ParseValue(text) ==
    LET s == SkipSpace(text)
    IN  IF s = <<>> THEN ParseFailed
        ELSE IF StartsWith(s, <<"n", "u", "l", "l">>) THEN Parsed(PyNone, Drop(s, 4))
        ELSE IF StartsWith(s, <<"t", "r", "u", "e">>) THEN Parsed(PyBool(TRUE), Drop(s, 4))
        ELSE IF StartsWith(s, <<"f", "a", "l", "s", "e">>)
             THEN Parsed(PyBool(FALSE), Drop(s, 5))
        ELSE IF Head(s) = "\"" THEN ParseChars(Tail(s), <<>>)
        ELSE IF Head(s) = "-"
             THEN LET d == ParseDigits(Tail(s), 0, FALSE)
                  IN  IF d.ok THEN Parsed(PyInt(0 - d.v.v), d.rest) ELSE ParseFailed
        ELSE IF Head(s) = "["
             THEN LET r == SkipSpace(Tail(s))
                  IN  IF r # <<>> /\ Head(r) = "]" THEN Parsed(PyList(<<>>), Tail(r))
                      ELSE ParseElems(r, <<>>)
        ELSE IF Head(s) = "{"
             THEN LET r == SkipSpace(Tail(s))
                  IN  IF r # <<>> /\ Head(r) = "}" THEN Parsed(PyDict(<<>>), Tail(r))
                      ELSE ParseItems(r, <<>>)
        ELSE ParseDigits(s, 0, FALSE)
ParseElems(s, acc) ==
    LET e == ParseValue(s)
        r == SkipSpace(e.rest)
    IN  IF ~e.ok \/ r = <<>> THEN ParseFailed
        ELSE IF Head(r) = "]" THEN Parsed(PyList(Append(acc, e.v)), Tail(r))
        ELSE IF Head(r) = "," THEN ParseElems(Tail(r), Append(acc, e.v))
        ELSE ParseFailed
ParseItems(text, acc) ==
    LET s == SkipSpace(text)
        k == IF s # <<>> /\ Head(s) = "\"" THEN ParseChars(Tail(s), <<>>) ELSE ParseFailed
        c == SkipSpace(k.rest)
        e == IF k.ok /\ c # <<>> /\ Head(c) = ":" THEN ParseValue(Tail(c)) ELSE ParseFailed
        r == SkipSpace(e.rest)
    IN  IF ~e.ok \/ r = <<>> THEN ParseFailed
        ELSE IF Head(r) = "}"
             THEN Parsed(PyDict(dict_setitem(acc, k.v.v, e.v)), Tail(r))
        ELSE IF Head(r) = ","
             THEN ParseItems(Tail(r), dict_setitem(acc, k.v.v, e.v))
        ELSE ParseFailed
\* json.loads(text): the whole text is one value
json_loads(text) ==
    LET p == ParseValue(text)
    IN  IF p.ok /\ SkipSpace(p.rest) = <<>> THEN p ELSE ParseFailed

\* a == b on Python values
RECURSIVE PyEq(_, _)
PyEq(a, b) ==
    /\ a.kind = b.kind
    /\ CASE a.kind = "None" -> TRUE
         [] a.kind \in {"list", "tuple"} ->
              /\ Len(a.v) = Len(b.v)
              /\ \A i \in 1..Len(a.v) : PyEq(a.v[i], b.v[i])
         [] a.kind = "dict" ->
              /\ Len(a.v) = Len(b.v)
              /\ \A i \in 1..Len(a.v) : \E j \in 1..Len(b.v) :
                    a.v[i][1] = b.v[j][1] /\ PyEq(a.v[i][2], b.v[j][2])
         [] a.kind = "object" -> a = b
         [] OTHER -> a.v = b.v

\* the value json holds for v: a tuple is an array, an object is what its
\* to_dict() returns
RECURSIVE AsJson(_)
AsJson(v) ==
    CASE v.kind \in {"list", "tuple"} -> PyList([i \in 1..Len(v.v) |-> AsJson(v.v[i])])
      [] v.kind = "dict" ->
           PyDict([i \in 1..Len(v.v) |-> <<v.v[i][1], AsJson(v.v[i][2])>>])
      [] v.kind = "object" /\ v.v # None -> AsJson(v.v[1])
      [] OTHER -> v

\* the position of r that merge_tuples reads, None when r has none
Position(r, i) ==
    IF r.kind = "tuple" THEN (IF i <= Len(r.v) THEN r.v[i] ELSE PyNone)
    ELSE IF i = 1 THEN r ELSE PyNone
\* the body the caller gave, the default '' when it gave none
GivenBody(r) == IF Position(r, 1).kind = "None" THEN PyStr(<<>>) ELSE Position(r, 1)
\* the headers the caller gave, the default {} when it gave none
GivenHeaders(r) == IF Position(r, 3).kind = "None" THEN <<>> ELSE Position(r, 3).v
HasKey(items, k) == \E i \in 1..Len(items) : items[i][1] = k
ValueAt(items, k) == items[CHOOSE i \in 1..Len(items) : items[i][1] = k][2]
IsText(x, s) == x.kind = "str" /\ x.v = s

\* C18: a string body comes back as it is, with Content-Type text/plain; any
\* other body comes back as JSON text that parses to an equal value, with
\* Content-Type application/json; a position that is None or missing is the
\* default: body '', status 200 (204 when the empty-body rule applies),
\* headers {}. A Content-Type among the caller's headers is the caller's.
C18_BodyAndContentType ==
    Returned(formatted) =>
        LET given == GivenBody(fmt_resp)
            mime == IF given.kind = "str" THEN text_mime ELSE json_mime
        IN  /\ BodyOf(formatted).kind = "str"
            /\ given.kind = "str" => BodyOf(formatted).v = given.v
            /\ given.kind # "str" =>
                  /\ json_loads(BodyOf(formatted).v).ok
                  /\ PyEq(json_loads(BodyOf(formatted).v).v, AsJson(given))
            /\ HasKey(HeadersOf(formatted), S_content_type)
            /\ ~HasKey(GivenHeaders(fmt_resp), S_content_type) =>
                  IsText(ValueAt(HeadersOf(formatted), S_content_type), mime)
            /\ Position(fmt_resp, 2).kind = "None" =>
                  /\ StatusOf(formatted).kind = "int"
                  /\ StatusOf(formatted).v \in {200, 204}
                  /\ BodyOf(formatted).v # <<>> => StatusOf(formatted).v = 200
            /\ Position(fmt_resp, 3).kind = "None" =>
                  /\ Len(HeadersOf(formatted)) = Len(default_headers) + 1
                  /\ \A i \in 1..Len(default_headers) :
                        HasKey(HeadersOf(formatted), default_headers[i][1])

\* a mapping with a quote and a backslash inside came back as JSON
C18_Witness ==
    /\ Returned(formatted)
    /\ GivenBody(fmt_resp).kind = "dict"
    /\ \E i \in 1..Len(BodyOf(formatted).v) : BodyOf(formatted).v[i] = "\\"
    /\ json_loads(BodyOf(formatted).v).ok
    /\ Position(fmt_resp, 2).kind = "None"
    /\ Position(fmt_resp, 3).kind = "None"

\* a string body came back as text
C18_WitnessText ==
    /\ Returned(formatted)
    /\ GivenBody(fmt_resp).kind = "str"
    /\ GivenBody(fmt_resp).v # <<>>
    /\ IsText(ValueAt(HeadersOf(formatted), S_content_type), text_mime)

\* the keys of a dict are distinct
DistinctKeys(items) ==
    \A i, j \in 1..Len(items) : items[i][1] = items[j][1] => i = j

\* C19: the headers returned are the base defaults and the computed
\* Content-Type with the caller's headers laid over them: every header of the
\* caller is in the result with the caller's value, Content-Type included;
\* a default or the computed Content-Type shows only where the caller gave
\* no header of that name, and nothing else is in the result.
C19_CallerHeadersWin ==
    Returned(formatted) =>
        LET given == GivenHeaders(fmt_resp)
            out == HeadersOf(formatted)
            mime == IF GivenBody(fmt_resp).kind = "str" THEN text_mime ELSE json_mime
        IN  /\ DistinctKeys(out)
            /\ \A i \in 1..Len(given) :
                  /\ HasKey(out, given[i][1])
                  /\ PyEq(ValueAt(out, given[i][1]), ValueAt(given, given[i][1]))
            /\ \A i \in 1..Len(default_headers) :
                  /\ HasKey(out, default_headers[i][1])
                  /\ \/ HasKey(given, default_headers[i][1])
                     \/ default_headers[i][1] = S_content_type
                     \/ PyEq(ValueAt(out, default_headers[i][1]), default_headers[i][2])
            /\ HasKey(out, S_content_type)
            /\ \/ HasKey(given, S_content_type)
               \/ IsText(ValueAt(out, S_content_type), mime)
            /\ \A i \in 1..Len(out) :
                  \/ HasKey(given, out[i][1])
                  \/ HasKey(default_headers, out[i][1])
                  \/ out[i][1] = S_content_type

\* the caller's own Content-Type came back, beside another header of theirs
C19_Witness ==
    /\ Returned(formatted)
    /\ HasKey(GivenHeaders(fmt_resp), S_content_type)
    /\ HasKey(GivenHeaders(fmt_resp), S_header)
    /\ ~IsText(ValueAt(GivenHeaders(fmt_resp), S_content_type), text_mime)
    /\ ~IsText(ValueAt(GivenHeaders(fmt_resp), S_content_type), json_mime)
    /\ PyEq(ValueAt(HeadersOf(formatted), S_content_type),
            ValueAt(GivenHeaders(fmt_resp), S_content_type))

\* C20: make_response is idempotent. Whenever make_response returns a triple,
\* make_response of that triple returns it again: the same body (a JSON text
\* is not encoded a second time), the same status (a 204 stays 204) and the
\* same headers (the Content-Type is kept).
C20_Idempotent ==
    (Returned(formatted) /\ reformatted.called) =>
        /\ reformatted.exc = "none"
        /\ reformatted.ret.kind = "tuple"
        /\ Len(reformatted.ret.v) = 3
        /\ PyEq(BodyOf(reformatted), BodyOf(formatted))
        /\ PyEq(StatusOf(reformatted), StatusOf(formatted))
        /\ PyEq(reformatted.ret.v[3], formatted.ret.v[3])

\* a JSON body with status 204 went through make_response twice
C20_Witness ==
    /\ Returned(formatted)
    /\ Returned(reformatted)
    /\ GivenBody(fmt_resp).kind = "dict"
    /\ Len(GivenBody(fmt_resp).v) > 0
    /\ IsStatus(StatusOf(reformatted), 204)
    /\ IsText(ValueAt(HeadersOf(reformatted), S_content_type), json_mime)

\* the empty response went through make_response twice
C20_WitnessEmpty ==
    /\ Returned(reformatted)
    /\ fmt_resp.kind = "None"
    /\ IsStatus(StatusOf(reformatted), 204)
    /\ BodyOf(reformatted).v = <<>>

\* C29: filter(only=S) emits a descriptor for a query key if and only if the
\* key is not empty and its name before mapping is in S; the empty key never
\* gets one, and without `only` every other key does.
C29_FilterOnly ==
    sel_op = "filter" =>
        \A i \in 1..Len(args) :
            (\E d \in 1..Len(sel_result) : sel_result[d].field = Renamed(args[i][1]))
                <=> (args[i][1] # <<>> /\ (only = None \/ args[i][1] \in only[1]))

\* a query with the empty key and another one, filtered without `only`
C29_Witness ==
    /\ sel_op = "filter"
    /\ only = None
    /\ HasParam(<<>>)
    /\ \E i \in 1..Len(args) : args[i][1] # <<>>
    /\ Len(sel_result) > 0

\* the tokens sort(only=S) is to keep: the field in front of the direction is
\* in S
KeptTokens ==
    {k \in NonEmptyTokens : only = None \/ FieldAtFirst(SortToken(k)) \in only[1]}

\* C30: sort(only=S) emits a descriptor for a token if and only if the
\* token's field name before mapping is in S, with or without a direction
\* behind it and blanks around it.
C30_SortOnly ==
    sel_op = "sort" =>
        /\ Len(sel_result) = Cardinality(KeptTokens)
        /\ \A k \in KeptTokens :
              sel_result[RankOf(KeptTokens, k)].field = Renamed(FieldAtFirst(SortToken(k)))

\* a token with a direction whose field is in `only`
C30_Witness ==
    /\ sel_op = "sort"
    /\ only # None
    /\ \E k \in KeptTokens : DirectedAtFirst(SortToken(k))

\* C27: the list view clamps the Selector's limit into [1, max_page] and its
\* offset into [0, infinity) for every query, a query without a limit or an
\* offset or with a negative or non-numeric one included; the Selector's own
\* limit() returns the number as it is written.
C27_ViewListClamps ==
    /\ sel_op = "view_list" =>
          /\ sel_raised = "none"
          /\ sel_result[1] # None /\ sel_result[1][1] >= 1 /\ sel_result[1][1] <= 500
          /\ sel_result[2] # None /\ sel_result[2][1] >= 0
    /\ sel_op = "limit" => ReturnsIntParam(K_limit)

\* the list view got a limit above max_page and brought it down
C27_Witness ==
    /\ sel_op = "view_list"
    /\ sel_raised = "none"
    /\ HasParam(K_limit) /\ Len(ParamValue(K_limit)) = 4
    /\ sel_result[1] = <<500>>

\* json has no text for v: an object that is no str, number, list or mapping
\* and has neither to_json nor to_dict, or a container that holds one
RECURSIVE Unserializable(_)
Unserializable(v) ==
    CASE v.kind = "object" -> v.v = None \/ Unserializable(v.v[1])
      [] v.kind \in {"list", "tuple"} -> \E i \in 1..Len(v.v) : Unserializable(v.v[i])
      [] v.kind = "dict" -> \E i \in 1..Len(v.v) : Unserializable(v.v[i][2])
      [] OTHER -> FALSE

\* C28: a body that json cannot serialize makes make_response raise TypeError
\* and return no triple, and a route with as_json on lets the same error out
\* instead of answering with a response.
C28_SerializationErrorPropagates ==
    (view_calls >= 1 /\ Unserializable(GivenBody(raw_response))
        /\ (raw_response.kind = "tuple" => Len(raw_response.v) <= 3)) =>
        /\ make_response(raw_response).exc = "TypeError"
        /\ make_response(raw_response).ret.kind = "None"
        /\ as_json => (raised = "TypeError" /\ response.kind = "None")

\* a handler returned an unserializable object inside a mapping, next to a
\* status, on a route that formats
C28_Witness ==
    /\ view_calls >= 1
    /\ as_json
    /\ handler_calls >= 1
    /\ raw_response.kind = "tuple"
    /\ Unserializable(GivenBody(raw_response))
    /\ raised = "TypeError"

(***************************************************************************)
(* The Router's registry and its accessors                                 *)
(***************************************************************************)
\* s without the c's at its two ends
Core(s, c) ==
    LET inner == {i \in 1..Len(s) : s[i] # c}
    IN  IF inner = {} THEN <<>>
        ELSE LET lo == CHOOSE i \in inner : \A j \in inner : i <= j
                 hi == CHOOSE i \in inner : \A j \in inner : i >= j
             IN  [k \in 1..(hi - lo + 1) |-> s[lo + k - 1]]

\* the registry r has an entry for method m of path p; that entry
HasEntry(r, p, m) == HasKey(r.v, p) /\ HasKey(ValueAt(r.v, p).v, m)
EntryOf(r, p, m) == ValueAt(ValueAt(r.v, p).v, m)
\* the <<path, method>> pairs of the registry r
EntriesOf(r) ==
    UNION {{<<r.v[i][1], r.v[i][2].v[j][1]>> : j \in 1..Len(r.v[i][2].v)} :
              i \in 1..Len(r.v)}

\* this step is a registration through a valid accessor
Registers == router_call'.op = "register" /\ raised' = "none" /\ view_calls' = view_calls
NewRule == url_rules'[Len(url_rules')]
\* the registration that was asked for, and the registry path of its route
Asked == router_call'.reg
FullPath == <<"/">> \o Core(url_prefix, "/") \o <<"/">> \o Core(Asked.rule_path, "/")

C21_WitnessUndocumented ==
    /\ router_call.op = "register"
    /\ raised = "none"
    /\ document_routes
    /\ ~router_call.reg.document
    /\ Len(url_rules) = 2
    /\ routes.v = <<>>

\* the URL rules at path '', the documentation route's
RootRules == {i \in 1..Len(url_rules) : url_rules[i].rule = <<>>}
\* this step serves the documentation route
ServesDocumentation ==
    /\ view_calls' = view_calls + 1
    /\ router_call'.op = "serve"
    /\ url_rules[router_call'.rule].view.kind = "documentation"

\* C22: the Router comes out of its construction with exactly one URL rule,
\* at path '', when documentation is on, and with none when it is off; no later
\* step adds a rule at ''. Whenever the view of that rule is called it
\* returns the registry as it is then: the empty mapping before any route is
\* registered, every documented route afterwards.
C22_DocumentationRoute ==
    /\ Len(url_rules) = (IF document_routes THEN 1 ELSE 0)
    /\ [](Cardinality(RootRules) = (IF document_routes THEN 1 ELSE 0))
    /\ [](\A i \in RootRules : url_rules[i].view.kind = "documentation")
    /\ [][ServesDocumentation =>
             /\ raised' = "none"
             /\ response'.kind = "tuple"
             /\ LET shown == json_loads(response'.v[1].v)
                IN  /\ shown.ok
                    /\ PyEq(shown.v, routes)
                    /\ \A e \in EntriesOf(routes) : HasEntry(shown.v, e[1], e[2])
             /\ routes.v = <<>> => response'.v[1].v = <<"{", "}">>]_vars

\* the documentation route was served after two routes were documented
C22_Witness ==
    /\ router_call.op = "serve"
    /\ url_rules[router_call.rule].view.kind = "documentation"
    /\ Cardinality(EntriesOf(routes)) = 2
    /\ raised = "none"
    /\ json_loads(response.v[1].v).ok
    /\ Cardinality(EntriesOf(json_loads(response.v[1].v).v)) = 2

\* the documentation route was served before any registration
C22_WitnessEmpty ==
    /\ router_call.op = "serve"
    /\ Len(url_rules) = 1
    /\ response.kind = "tuple"
    /\ response.v[1].v = <<"{", "}">>

\* C23: the documentation route returns the registry serialized as JSON when
\* as_json is on for the Router, and the registry mapping itself, not a
\* formatted triple, when as_json is off.
C23_DocumentationFormat ==
    [][ServesDocumentation =>
          IF as_json
          THEN /\ response'.kind = "tuple"
               /\ json_loads(response'.v[1].v).ok
               /\ PyEq(json_loads(response'.v[1].v).v, routes)
          ELSE /\ response'.kind = "dict"
               /\ PyEq(response', routes)]_vars

\* the seven methods, as the accessors are named and as they are registered
AccessorNames ==
    <<<<"g", "e", "t">>, <<"p", "o", "s", "t">>, <<"p", "u", "t">>, <<"p", "a", "t", "c", "h">>, <<"d", "e", "l", "e", "t", "e">>, <<"h", "e", "a", "d">>, <<"o", "p", "t", "i", "o", "n", "s">>>>
MethodNames ==
    <<<<"G", "E", "T">>, <<"P", "O", "S", "T">>, <<"P", "U", "T">>, <<"P", "A", "T", "C", "H">>, <<"D", "E", "L", "E", "T", "E">>, <<"H", "E", "A", "D">>, <<"O", "P", "T", "I", "O", "N", "S">>>>
\* a and b are the same word but for the case of their letters
SameButCase(a, b) ==
    LET small == <<"a", "b", "c", "d", "e", "f", "g", "h", "i", "j", "k", "l", "m", "n", "o", "p", "q", "r", "s", "t", "u", "v", "w", "x", "y", "z">>
        capital == <<"A", "B", "C", "D", "E", "F", "G", "H", "I", "J", "K", "L", "M", "N", "O", "P", "Q", "R", "S", "T", "U", "V", "W", "X", "Y", "Z">>
    IN  /\ Len(a) = Len(b)
        /\ \A i \in 1..Len(a) :
              \/ a[i] = b[i]
              \/ \E k \in 1..26 : {a[i], b[i]} = {small[k], capital[k]}
\* this step asks the Router for an accessor and registers a route through it
AsksAccessor == router_call'.op = "register" /\ view_calls' = view_calls
\* the step registered one route, for the method `method` alone
RegistersFor(method) ==
    /\ raised' = "none"
    /\ Len(url_rules') = Len(url_rules) + 1
    /\ NewRule.methods = <<method>>
    /\ Asked.document /\ document_routes => HasEntry(routes', FullPath, method)
\* the step failed with the invalid-method error and left the Router alone
FailsFast ==
    /\ raised' = "AttributeError"
    /\ url_rules' = url_rules
    /\ routes' = routes
    /\ view_calls' = view_calls /\ handler_calls' = handler_calls

\* C24 as stated: an accessor whose name is not one of get, post, put, patch,
\* delete, head, options fails with the invalid-method error before any URL
\* rule is registered and any request served; each of the seven registers the
\* route for exactly that method.
C24_AccessorNames ==
    [][AsksAccessor =>
          IF \E k \in 1..7 : Asked.item = AccessorNames[k]
          THEN \E k \in 1..7 : Asked.item = AccessorNames[k] /\ RegistersFor(MethodNames[k])
          ELSE FailsFast]_vars

\* C24, amended: the accessor's name is read without regard to case. A name
\* that is one of the seven in any mix of upper and lower case (get, GET,
\* Post) registers the route for that method, in upper case; every other
\* name fails with the invalid-method error before any URL rule is
\* registered and any request served.
C24_AccessorAnyCase ==
    [][AsksAccessor =>
          IF \E k \in 1..7 : SameButCase(Asked.item, AccessorNames[k])
          THEN \E k \in 1..7 : /\ SameButCase(Asked.item, AccessorNames[k])
                               /\ RegistersFor(MethodNames[k])
          ELSE FailsFast]_vars

\* after a route registered through router.Post, router.fetch was asked for
C24_Witness ==
    /\ router_call.op = "register"
    /\ router_call.reg.item = <<"f", "e", "t", "c", "h">>
    /\ raised = "AttributeError"
    /\ \E i \in 1..Len(url_rules) : url_rules[i].methods = <<<<"P", "O", "S", "T">>>>

\* C25: the registry is changed by registration alone. It is empty when the
\* Router is constructed; a step that changes it is a registration; no step
\* takes a path or a method entry out of it; and a step that serves a route
\* or the documentation route, whatever the body and the decorator, leaves it
\* as it was.
C25_RegistryFrame ==
    /\ routes.v = <<>>
    /\ [][~PyEq(routes', routes) => Registers]_vars
    /\ [][/\ \A i \in 1..Len(routes.v) : HasKey(routes'.v, routes.v[i][1])
          /\ EntriesOf(routes) \subseteq EntriesOf(routes')]_vars
    /\ [][view_calls' # view_calls => PyEq(routes', routes)]_vars

\* with two routes documented, a request with an invalid body was turned
\* down by the route's validator
C25_Witness ==
    /\ router_call.op = "serve"
    /\ url_rules[router_call.rule].view.kind = "route"
    /\ Cardinality(EntriesOf(routes)) = 2
    /\ validator_errors.kind = "dict" /\ Len(validator_errors.v) > 0
    /\ handler_calls = 0

\* with a route documented, the Router's decorator denied a request
C25_WitnessDenied ==
    /\ router_call.op = "serve"
    /\ url_rules[router_call.rule].view.kind = "route"
    /\ decorator = "blocking"
    /\ decorator_calls >= 1
    /\ Cardinality(EntriesOf(routes)) >= 1

(***************************************************************************)
(* Two requests at a time                                                  *)
(***************************************************************************)
\* what the validator makes of request t's own body
OwnResult(t) ==
    Validator_validate(IF truthy(threads[t].body) THEN threads[t].body ELSE PyDict(<<>>),
                       threads[t].found, Defaults[2])

\* C26: requests served at the same time by one validated route share no
\* state. Whatever the interleaving, a request that has been answered either
\* had its handler called with the document validated from its own body, or
\* got a 400 with the errors found in its own body; never the document or
\* the errors of the other request.
C26_RequestsIsolated ==
    \A t \in 1..2 :
        (threads # <<>> /\ threads[t].pc = "done" /\ truthy(validate)) =>
            IF OwnResult(t).ok
            THEN /\ threads[t].ok
                 /\ threads[t].f_called =>
                       /\ HasKey(threads[t].f_kwargs, data_key)
                       /\ PyEq(ValueAt(threads[t].f_kwargs, data_key), OwnResult(t).document)
            ELSE /\ ~threads[t].ok
                 /\ IsErrorResponse(threads[t].response, OwnResult(t).errors)

\* both requests were answered, one with a valid and one with an invalid body
C26_Witness ==
    /\ threads # <<>>
    /\ truthy(validate)
    /\ \A t \in 1..2 : threads[t].pc = "done"
    /\ \E t \in 1..2 : threads[t].ok
    /\ \E t \in 1..2 : ~threads[t].ok

====
